---- MODULE Spec2Model ----
(***************************************************************************)
(* Model of the metrics retention core of digger: the fixed-capacity       *)
(* RingBuffer (src/src/ringbuf.rs) and the History time-series store       *)
(* (src/src/history.rs) with its batched transactional writes, time-based  *)
(* pruning, bucketed downsampling and exports; of the collector's top-N    *)
(* process selection, staggered refresh schedule and Windows ownership     *)
(* classification (src/src/metrics.rs); of the GPU detection cascade and   *)
(* the asynchronously refreshed caches (src/src/gpu.rs, metrics.rs); and   *)
(* of the Tick handler of the application (src/src/ui.rs) with its pending *)
(* batch, anomaly detection, health score, bounded event log and alert     *)
(* threshold messages.                                                     *)
(* Percentages and temperatures are f32 in the source; the model uses      *)
(* integer values.                                                         *)
(*                                                                         *)
(* Timestamps are f64 seconds in the source; the model uses integer        *)
(* seconds and exact quotients.  The snapshots table is a set of rows; its *)
(* timestamps are pairwise distinct only as far as INSERT OR REPLACE keeps *)
(* them so.  Every SQL statement whose Err branch the source handles may   *)
(* fail (BEGIN, each INSERT, the pruning DELETE); COMMIT and ROLLBACK,     *)
(* whose results the source discards, succeed.                             *)
(***************************************************************************)
EXTENDS Integers, Sequences, FiniteSets, TLC

VARIABLES
    buf,              \* RingBuffer.buf   (VecDeque, front = index 1)
    capacity,         \* RingBuffer.capacity
    pushed,           \* history variable: every item pushed so far, in order
    conn,             \* History.conn.is_some()
    retention_secs,   \* History.retention_secs
    last_prune_time,  \* History.last_prune_time
    last_error,       \* History.last_error: "None", "InitFailed", "WriteFailed"
    db,               \* rows of table snapshots in the store file
    retention_hours,  \* Digger.retention_hours (from Preferences)
    op,               \* what the last History call did (observation record)
    handed,           \* number of snapshots handed to History so far
    recorded,         \* history variable: timestamps of committed snapshots
    latest,           \* history variable: timestamp of the last snapshot handed in
    clean,            \* history variable: every call so far committed, pruned
                      \* without error, and timestamps never decreased
    query,            \* the last History read call and its arguments
    result,           \* what that read returned (Vec<HistoryPoint>)
    process_limit,    \* Collector.process_limit
    sys_processes,    \* the OS process table collect() last iterated over
    processes,        \* Snapshot.processes of the last collect()
    collected,        \* collect() has returned a snapshot of sys_processes
    tick_count,       \* Collector.tick_count
    disks_last_refresh, \* Collector.disks_last_refresh
    disks,            \* Collector.disks: the list sysinfo holds
    cached_disks,     \* Collector.cached_disks
    cpu_frequency,    \* the frequency Collector.sys holds for the first CPU
    os_disks,         \* what the OS reports now for the listed disks
    os_frequency,     \* the frequency the OS reports now
    refreshed,        \* what the last collect() refreshed
    inspected,        \* the process is_system_process was last asked about
    uid,              \* ProcessInfo.uid it got on Windows (0 user, 1 system)
    refresh_interval_secs, \* Digger.refresh_interval_secs: the period of Tick
    now,              \* timestamp of the snapshot collect() returned last
    pending_snapshots,\* Digger.pending_snapshots
    last_db_flush,    \* Digger.last_db_flush
    cpu_alert_threshold, \* Digger.cpu_alert_threshold
    mem_alert_threshold, \* Digger.mem_alert_threshold
    event_log,        \* Digger.event_log (VecDeque, front = index 1)
    prev_cpu,         \* Digger.prev_cpu
    prev_mem_pct,     \* Digger.prev_mem_pct
    health_score,     \* Digger.health_score, in hundredths of a beat
    ticks,            \* history variable: what each Tick since the initial
                      \* state saw and emitted
    emitted,          \* history variable: every event pushed since Digger::new
    gpu_build,        \* the build: target_os and whether feature "gpu" is enabled
    gpu_probe,        \* what the NVML, sysfs and nvidia-smi probes yield right now
    nvidia_smi_cache, \* NVIDIA_SMI_CACHE (Linux)
    gpu_snapshot,     \* what collect_gpu_info() returned last
    gpu_called,       \* collect_gpu_info() has returned
    clock,            \* Instant::now(), in seconds
    cache,            \* the CACHE static of each asynchronously refreshed backend
    refresh_running,  \* its REFRESH_RUNNING static
    workers,          \* every refresh worker spawned so far and where it is
    callers,          \* the threads calling the entry points and where they are
    saved_prefs \* the alert thresholds in the preferences file

ringVars == <<buf, capacity, pushed>>
histVars == <<conn, retention_secs, last_prune_time, last_error, db,
              retention_hours, op, handed, recorded, latest, clean>>
readVars == <<query, result>>
collectVars == <<process_limit, sys_processes, processes, collected,
                 tick_count, disks_last_refresh, disks, cached_disks,
                 cpu_frequency, os_disks, os_frequency, refreshed>>
classVars == <<inspected, uid>>
vars == <<buf, capacity, pushed, conn, retention_secs, last_prune_time,
          last_error, db, retention_hours, op, handed, recorded, latest, clean,
          query, result, process_limit, sys_processes, processes, collected,
          tick_count, disks_last_refresh, disks, cached_disks, cpu_frequency,
          os_disks, os_frequency, refreshed,
          inspected, uid, refresh_interval_secs, now, pending_snapshots,
          last_db_flush, cpu_alert_threshold, mem_alert_threshold, event_log,
          prev_cpu, prev_mem_pct, health_score, ticks, emitted,
          gpu_build, gpu_probe, nvidia_smi_cache, gpu_snapshot, gpu_called,
          clock, cache, refresh_running, workers, callers,
          saved_prefs>>
tickVars == <<refresh_interval_secs, now, pending_snapshots, last_db_flush,
              cpu_alert_threshold, mem_alert_threshold, event_log, prev_cpu,
              prev_mem_pct, health_score, ticks, emitted>>
prefsVars == <<saved_prefs>>
refreshVars == <<clock, cache, refresh_running, workers, callers>>
gpuVars == <<gpu_build, gpu_probe, nvidia_smi_cache, gpu_snapshot, gpu_called>>

----------------------------------------------------------------------------
(* Bounds of the model *)
MaxCap == 3
MaxPush == 5
MaxItem == 2
MaxSnapshots == 3
MaxTime == 4
MaxPoints == 3
MaxProcs == 4
MaxLimit == 3
MaxTicks == 2
MaxGpus == 2
MaxCalls == 3
MaxCollects == 61
MaxFlushTicks == 9

Min(a, b) == IF a <= b THEN a ELSE b

Last(s) == s[Len(s)]

----------------------------------------------------------------------------
(* RingBuffer<T>                                                           *)

Items == 1..MaxItem

\* VecDeque::pop_front: removes the front element, no effect when empty
pop_front(s) == IF Len(s) = 0 THEN s ELSE Tail(s)

\* push with the comparison weakened to '>' (evicts one push too late)
push_late_evict(b, cap, item) ==
    Append(IF Len(b) > cap THEN pop_front(b) ELSE b, item)

\* RingBuffer::push, as a function of the buffer
push_item(b, cap, item) ==
    Append(IF Len(b) >= cap THEN pop_front(b) ELSE b, item)

\* RingBuffer::iter: front to back
iter(b) == b

\* RingBuffer::len
len(b) == Len(b)

RingInit ==
    /\ capacity \in 0..MaxCap
    /\ buf = <<>>
    /\ pushed = <<>>

push ==
    /\ Len(pushed) < MaxPush
    /\ \E item \in Items :
        /\ buf' = push_item(buf, capacity, item)
        /\ pushed' = Append(pushed, item)
    /\ UNCHANGED capacity

----------------------------------------------------------------------------
(* History                                                                 *)

\* retention_secs: 86400.0 in every constructor path of History::open
DEFAULT_RETENTION_SECS == 86400

\* "last.timestamp - self.last_prune_time >= 60.0"
PRUNE_INTERVAL_SECS == 60

\* default_retention_hours()
DEFAULT_RETENTION_HOURS == 24

\* retention_hours.clamp(1, 168): the two ends and the default
RetentionHours == {1, DEFAULT_RETENTION_HOURS, 168}

\* Snapshot timestamps offered to the store: an early one and three that lie
\* one retention window later.
Times == {30, DEFAULT_RETENTION_SECS + 30, DEFAULT_RETENTION_SECS + 60,
          DEFAULT_RETENTION_SECS + 120}

CpuVals == {10, 20}

\* the fields of metrics::Snapshot that History reads (values of make_snapshot,
\* scaled)
Snapshots ==
    { [timestamp |-> t, cpu_usage_global |-> c, memory_used |-> 4,
       memory_total |-> 8, net_rx_bytes |-> 1, net_tx_bytes |-> 2] :
      t \in Times, c \in CpuVals }

RECURSIVE SeqsUpTo(_, _)
SeqsUpTo(S, n) ==
    IF n = 0 THEN {<<>>}
    ELSE LET shorter == SeqsUpTo(S, n - 1)
         IN  shorter \cup {Append(q, x) : q \in {r \in shorter : Len(r) = n - 1}, x \in S}

\* the batches that may still be handed in after n snapshots
Batches(n) == SeqsUpTo(Snapshots, MaxSnapshots - n)

\* params![...] of the INSERT: the row a snapshot is stored as
Row(snap) ==
    [timestamp |-> snap.timestamp, cpu |-> snap.cpu_usage_global,
     mem_used |-> snap.memory_used, mem_total |-> snap.memory_total,
     net_rx |-> snap.net_rx_bytes, net_tx |-> snap.net_tx_bytes]

\* a plain INSERT that ignores the primary key
insert_keep_old(table, snap) == table \cup {Row(snap)}

\* INSERT OR REPLACE INTO snapshots, timestamp being the PRIMARY KEY
insert_or_replace(table, snap) ==
    {r \in table : r.timestamp # snap.timestamp} \cup {Row(snap)}

\* the for loop over the batch inside the transaction; the insert of element
\* fail_at returns Err (0: none does) and the loop breaks there
RECURSIVE insert_loop(_, _, _, _)
insert_loop(table, snapshots, i, fail_at) ==
    IF i > Len(snapshots) THEN [table |-> table, any_error |-> FALSE, inserted |-> i - 1]
    ELSE IF i = fail_at THEN [table |-> table, any_error |-> TRUE, inserted |-> i - 1]
    ELSE insert_loop(insert_or_replace(table, snapshots[i]), snapshots, i + 1, fail_at)

\* a transaction end that commits whatever was inserted
end_transaction_keep(before, txn) == txn.table

\* ROLLBACK when any insert failed, COMMIT otherwise
end_transaction(before, txn) == IF txn.any_error THEN before ELSE txn.table

\* prune check with a two-minute interval
prune_due_late(last_ts, lpt) == last_ts - lpt >= 2 * PRUNE_INTERVAL_SECS

\* "if last.timestamp - self.last_prune_time >= 60.0"
prune_due(last_ts, lpt) == last_ts - lpt >= PRUNE_INTERVAL_SECS

\* "let cutoff = last.timestamp - self.retention_secs"
prune_cutoff(last_ts, retention) == last_ts - retention

\* a DELETE that also takes the row at the cutoff
delete_older_inclusive(table, cutoff) == {r \in table : ~(r.timestamp <= cutoff)}

\* DELETE FROM snapshots WHERE timestamp < cutoff
delete_older(table, cutoff) == {r \in table : ~(r.timestamp < cutoff)}

\* what the environment does to the statements of one call
Envs(snapshots) ==
    { [begin_fails |-> b, fail_at |-> k, prune_fails |-> p] :
      b \in BOOLEAN, k \in 0..Len(snapshots), p \in BOOLEAN }

\* History as a record, the observation of a call is returned with it
HistoryState ==
    [conn |-> conn, retention_secs |-> retention_secs,
     last_prune_time |-> last_prune_time, last_error |-> last_error, db |-> db]

NoEffect(h, outcome) ==
    [db |-> h.db, last_prune_time |-> h.last_prune_time, last_error |-> h.last_error,
     outcome |-> outcome, inserted |-> 0, pruned |-> FALSE, prune_failed |-> FALSE]

\* History::record_batch
record_batch_result(h, snapshots, env) ==
    IF ~h.conn THEN NoEffect(h, "unavailable")
    ELSE IF Len(snapshots) = 0 THEN NoEffect(h, "empty")
    ELSE IF env.begin_fails
    THEN [NoEffect(h, "begin_failed") EXCEPT !.last_error = "WriteFailed"]
    ELSE
    LET txn == insert_loop(h.db, snapshots, 1, env.fail_at)
        table1 == end_transaction(h.db, txn)
        error1 == IF txn.any_error THEN "WriteFailed" ELSE "None"
        last == Last(snapshots)
        due == prune_due(last.timestamp, h.last_prune_time)
        cutoff == prune_cutoff(last.timestamp, h.retention_secs)
    IN  [db |-> IF due /\ ~env.prune_fails THEN delete_older(table1, cutoff) ELSE table1,
         last_prune_time |-> IF due THEN last.timestamp ELSE h.last_prune_time,
         last_error |-> IF due /\ env.prune_fails THEN "WriteFailed" ELSE error1,
         outcome |-> IF txn.any_error THEN "rolled_back" ELSE "committed",
         inserted |-> txn.inserted,
         pruned |-> due,
         prune_failed |-> due /\ env.prune_fails]

\* only environments that differ in what the call executes
Relevant(h, snapshots, env) ==
    /\ env.begin_fails => (env.fail_at = 0 /\ ~env.prune_fails)
    /\ env.prune_fails =>
         /\ h.conn /\ Len(snapshots) > 0
         /\ prune_due(Last(snapshots).timestamp, h.last_prune_time)
    /\ (env.begin_fails \/ env.fail_at > 0) => (h.conn /\ Len(snapshots) > 0)

NonDecreasing(snapshots, from) ==
    /\ Len(snapshots) > 0 => from <= snapshots[1].timestamp
    /\ \A i \in 1..(Len(snapshots) - 1) :
         snapshots[i].timestamp <= snapshots[i + 1].timestamp

\* History together with the observations the model keeps of its calls
Observed ==
    [conn |-> conn, retention_secs |-> retention_secs,
     last_prune_time |-> last_prune_time, last_error |-> last_error, db |-> db,
     op |-> op, handed |-> handed, recorded |-> recorded, latest |-> latest,
     clean |-> clean]

\* o after the call name(snapshots) in environment env
called(o, name, snapshots, env) ==
    LET res == record_batch_result(o, snapshots, env)
    IN  [conn |-> o.conn,
         retention_secs |-> o.retention_secs,
         db |-> res.db,
         last_prune_time |-> res.last_prune_time,
         last_error |-> res.last_error,
         op |-> [name |-> name,
                 snapshots |-> IF res.outcome = "unavailable" THEN <<>> ELSE snapshots,
                 outcome |-> res.outcome,
                 inserted |-> res.inserted, pruned |-> res.pruned,
                 prune_failed |-> res.prune_failed,
                 before |-> [db |-> o.db, last_prune_time |-> o.last_prune_time,
                             last_error |-> o.last_error]],
         handed |-> o.handed + Len(snapshots),
         recorded |-> IF res.outcome = "committed"
                      THEN o.recorded \cup {snapshots[i].timestamp : i \in 1..Len(snapshots)}
                      ELSE o.recorded,
         latest |-> IF Len(snapshots) > 0 THEN Last(snapshots).timestamp ELSE o.latest,
         clean |-> /\ o.clean
                   /\ res.outcome \in {"committed", "empty"}
                   /\ ~res.prune_failed
                   /\ NonDecreasing(snapshots, o.latest)]

\* the History variables take the values of o
SetHistory(o) ==
    /\ db' = o.db
    /\ last_prune_time' = o.last_prune_time
    /\ last_error' = o.last_error
    /\ op' = o.op
    /\ handed' = o.handed
    /\ recorded' = o.recorded
    /\ latest' = o.latest
    /\ clean' = o.clean
    /\ UNCHANGED <<conn, retention_secs, retention_hours>>

Apply(name, snapshots, env) ==
    /\ handed + Len(snapshots) <= MaxSnapshots
    /\ Relevant(HistoryState, snapshots, env)
    /\ SetHistory(called(Observed, name, snapshots, env))

\* History::record_batch(&mut self, snapshots)
record_batch ==
    \E snapshots \in Batches(handed) : \E env \in Envs(snapshots) :
        Apply("record_batch", snapshots, env)

\* History::record(&mut self, snap): self.record_batch(&[snap])
record ==
    \E snap \in {x \in Snapshots : handed < MaxSnapshots} : \E env \in Envs(<<snap>>) :
        Apply("record", <<snap>>, env)

\* History::open, reached from Digger::new after Preferences::load
HistoryInit(hours, stores) ==
    /\ conn \in BOOLEAN
    /\ retention_secs = DEFAULT_RETENTION_SECS
    /\ last_prune_time = 0
    /\ last_error = IF conn THEN "None" ELSE "InitFailed"
    /\ db \in stores
    /\ retention_hours \in hours
    /\ op = [name |-> "open", snapshots |-> <<>>, outcome |-> "none",
             inserted |-> 0, pruned |-> FALSE, prune_failed |-> FALSE,
             before |-> [db |-> db, last_prune_time |-> 0, last_error |-> last_error]]
    /\ handed = 0
    /\ recorded = {r.timestamp : r \in db}
    /\ latest = 0
    /\ clean = TRUE

----------------------------------------------------------------------------
(* History reads                                                           *)

\* timestamps of the rows found in the store file, and of the query bounds
QueryTimes == 0..MaxTime

\* a row as an earlier run stored it
StoredRow(t) ==
    [timestamp |-> t, cpu |-> 10 * (t + 1), mem_used |-> 4 + t, mem_total |-> 8,
     net_rx |-> t, net_tx |-> 2 * t]

\* contents of table snapshots: at most one row per timestamp (PRIMARY KEY)
Stores == { {StoredRow(t) : t \in T} : T \in SUBSET QueryTimes }

\* ORDER BY timestamp ASC over a set of rows with distinct timestamps
RECURSIVE ascending(_)
ascending(rows) ==
    IF rows = {} THEN <<>>
    ELSE LET first == CHOOSE r \in rows : \A o \in rows : r.timestamp <= o.timestamp
         IN  <<first>> \o ascending(rows \ {first})

\* a range that leaves out its upper bound
in_range_exclusive(table, from, to) == {r \in table : r.timestamp >= from /\ r.timestamp < to}

\* WHERE timestamp >= ?1 AND timestamp <= ?2
in_range(table, from, to) == {r \in table : r.timestamp >= from /\ r.timestamp <= to}

\* a load_range that queries without looking at the connection
load_range_unguarded(h, from, to) == ascending(in_range(h.db, from, to))

\* History::load_range
load_range(h, from, to) ==
    IF ~h.conn THEN <<>>
    ELSE ascending(in_range(h.db, from, to))

RECURSIVE Sum(_, _)
Sum(rows, field) ==
    IF rows = {} THEN 0
    ELSE LET r == CHOOSE x \in rows : TRUE
         IN  r[field] + Sum(rows \ {r}, field)

\* AVG(x) over a group: the exact quotient, kept as numerator and denominator
Avg(rows, field) == [num |-> Sum(rows, field), den |-> Cardinality(rows)]

\* CAST(AVG(x) AS INTEGER): truncation (the columns are not negative)
AvgInt(rows, field) == Sum(rows, field) \div Cardinality(rows)

\* CAST((timestamp - ?1) / ?3 AS INTEGER) with ?3 = (to - from) / max_points,
\* for from <= timestamp and from < to
bucket_of(timestamp, from, to, max_points) ==
    ((timestamp - from) * max_points) \div (to - from)

\* the SELECT list of the downsampling query over one group
averaged(rows) ==
    [timestamp |-> Avg(rows, "timestamp"), cpu |-> Avg(rows, "cpu"),
     mem_used |-> AvgInt(rows, "mem_used"), mem_total |-> AvgInt(rows, "mem_total"),
     net_rx |-> AvgInt(rows, "net_rx"), net_tx |-> AvgInt(rows, "net_tx")]

\* GROUP BY bucket ... ORDER BY 1 ASC: the buckets are disjoint intervals, so
\* ascending average timestamp is ascending bucket number
RECURSIVE grouped(_, _, _, _)
grouped(rows, from, to, max_points) ==
    IF rows = {} THEN <<>>
    ELSE LET b == CHOOSE x \in {bucket_of(r.timestamp, from, to, max_points) : r \in rows} :
                     \A r \in rows : x <= bucket_of(r.timestamp, from, to, max_points)
             group == {r \in rows : bucket_of(r.timestamp, from, to, max_points) = b}
         IN  <<averaged(group)>> \o grouped(rows \ group, from, to, max_points)

\* downsampling whose degenerate-range branch returns Vec::new()
load_range_downsampled_empty_fallback(h, from, to, max_points) ==
    IF ~h.conn THEN <<>>
    ELSE IF max_points = 0 THEN <<>>
    ELSE IF to - from <= 0 THEN <<>>
    ELSE grouped(in_range(h.db, from, to), from, to, max_points)

\* History::load_range_downsampled
load_range_downsampled(h, from, to, max_points) ==
    IF ~h.conn THEN <<>>
    ELSE IF max_points = 0 THEN <<>>
    ELSE IF to - from <= 0 THEN load_range(h, from, to)
    ELSE grouped(in_range(h.db, from, to), from, to, max_points)

----------------------------------------------------------------------------
(* History exports: the text is a sequence of tokens, "nl" being '\n'      *)

Token(kind) == [kind |-> kind]

\* "{:.N}" of a number without fractional part: N zero decimals
fmt_fixed(x, digits) == [whole |-> x, frac |-> 0, digits |-> digits]

\* "{},{:.2},{},{},{},{}" of one row
csv_fields(r) ==
    [kind |-> "fields", timestamp |-> r.timestamp, cpu |-> fmt_fixed(r.cpu, 2),
     mem_used |-> r.mem_used, mem_total |-> r.mem_total,
     net_rx |-> r.net_rx, net_tx |-> r.net_tx]

\* the raw string literal of export_json, filled in for one row
json_object(r) ==
    [kind |-> "object", timestamp |-> fmt_fixed(r.timestamp, 3),
     cpu |-> fmt_fixed(r.cpu, 2), mem_used |-> r.mem_used,
     mem_total |-> r.mem_total, net_rx |-> r.net_rx, net_tx |-> r.net_tx]

\* "for row in rows.flatten() { writeln!(out, ...) }"
RECURSIVE csv_rows(_)
csv_rows(rows) ==
    IF rows = <<>> THEN <<>>
    ELSE <<csv_fields(Head(rows)), Token("nl")>> \o csv_rows(Tail(rows))

\* a row loop that uses write! and so ends no line
RECURSIVE csv_rows_unterminated(_)
csv_rows_unterminated(rows) ==
    IF rows = <<>> THEN <<>>
    ELSE <<csv_fields(Head(rows))>> \o csv_rows_unterminated(Tail(rows))

\* export_csv whose rows are written without the line end
export_csv_unterminated(h, from, to) ==
    IF ~h.conn THEN <<>>
    ELSE <<Token("header"), Token("nl")>>
         \o csv_rows_unterminated(ascending(in_range(h.db, from, to)))

\* History::export_csv
export_csv(h, from, to) ==
    IF ~h.conn THEN <<>>
    ELSE <<Token("header"), Token("nl")>> \o csv_rows(ascending(in_range(h.db, from, to)))

\* "if !first { out.push_str(",\n") } ... write!(out, ...)"
RECURSIVE json_rows(_, _)
json_rows(rows, first) ==
    IF rows = <<>> THEN <<>>
    ELSE (IF first THEN <<>> ELSE <<Token(","), Token("nl")>>)
         \o <<json_object(Head(rows))>> \o json_rows(Tail(rows), FALSE)

\* History::export_json
export_json(h, from, to) ==
    IF ~h.conn THEN <<Token("["), Token("]")>>
    ELSE <<Token("["), Token("nl")>>
         \o json_rows(ascending(in_range(h.db, from, to)), TRUE)
         \o <<Token("nl"), Token("]")>>

LoadRange ==
    \E from \in QueryTimes, to \in QueryTimes :
        /\ result' = load_range(HistoryState, from, to)
        /\ query' = [name |-> "load_range", from |-> from, to |-> to, max_points |-> 0]
        /\ UNCHANGED <<histVars, ringVars, collectVars, classVars, tickVars, gpuVars, refreshVars, prefsVars>>

LoadRangeDownsampled ==
    \E from \in QueryTimes, to \in QueryTimes, max_points \in 0..MaxPoints :
        /\ result' = load_range_downsampled(HistoryState, from, to, max_points)
        /\ query' = [name |-> "load_range_downsampled", from |-> from, to |-> to,
                     max_points |-> max_points]
        /\ UNCHANGED <<histVars, ringVars, collectVars, classVars, tickVars, gpuVars, refreshVars, prefsVars>>

ExportCsv ==
    \E from \in QueryTimes, to \in QueryTimes :
        /\ result' = export_csv(HistoryState, from, to)
        /\ query' = [name |-> "export_csv", from |-> from, to |-> to, max_points |-> 0]
        /\ UNCHANGED <<histVars, ringVars, collectVars, classVars, tickVars, gpuVars, refreshVars, prefsVars>>

ExportJson ==
    \E from \in QueryTimes, to \in QueryTimes :
        /\ result' = export_json(HistoryState, from, to)
        /\ query' = [name |-> "export_json", from |-> from, to |-> to, max_points |-> 0]
        /\ UNCHANGED <<histVars, ringVars, collectVars, classVars, tickVars, gpuVars, refreshVars, prefsVars>>

----------------------------------------------------------------------------
(* Collector::collect: the top-N selection of the process list *)

CpuUsages == {0, 5, 9}

\* the process table of the OS, in the order sys.processes().values() yields it
ProcessTables ==
    UNION { [1..n -> CpuUsages] : n \in 0..MaxProcs }

ProcessInfo(table, i) == [pid |-> i, cpu_usage |-> table[i]]

\* no selection at all: the list stays in table order
select_nth_skipped(v, index) == {v}

\* select_nth_unstable_by(index, |a, b| b.cpu_usage.partial_cmp(&a.cpu_usage)):
\* any reordering that puts at (0-based) index the element a full sort would
\* put there, nothing of lower CPU before it and nothing of higher CPU after
select_nth_unstable_by(v, index) ==
    { w \in {[i \in 1..Len(v) |-> v[f[i]]] : f \in Permutations(1..Len(v))} :
        /\ \A i \in 1..index : w[i].cpu_usage >= w[index + 1].cpu_usage
        /\ \A j \in (index + 2)..Len(w) : w[j].cpu_usage <= w[index + 1].cpu_usage }

truncate(v, n) == SubSeq(v, 1, n)

\* where the stable sort puts x, which came before every element of sorted
RECURSIVE insert_sorted(_, _)
insert_sorted(x, sorted) ==
    IF sorted = <<>> THEN <<x>>
    ELSE IF Head(sorted).cpu_usage > x.cpu_usage
         THEN <<Head(sorted)>> \o insert_sorted(x, Tail(sorted))
         ELSE <<x>> \o sorted

\* processes.sort_by(|a, b| b.cpu_usage.partial_cmp(&a.cpu_usage)): stable
RECURSIVE sort_by(_)
sort_by(v) ==
    IF v = <<>> THEN <<>> ELSE insert_sorted(Head(v), sort_by(Tail(v)))

\* a disk as the snapshot carries it
DiskInfo(name, mount, fs_type, total, available, is_removable) ==
    [name |-> name, mount |-> mount, fs_type |-> fs_type, total |-> total,
     available |-> available, is_removable |-> is_removable]

\* the space figures the OS may report for a disk: total and available
Spaces == {<<100, 40>>, <<100, 30>>, <<200, 130>>}

\* the disks mounted when the collector is built
Mounted ==
    {<<>>,
     <<DiskInfo("sda1", "/", "ext4", 100, 40, FALSE)>>,
     <<DiskInfo("sda1", "/", "ext4", 100, 40, FALSE),
       DiskInfo("sdb1", "/media/usb", "vfat", 100, 30, TRUE)>>}

\* the CPU frequencies the OS may report, MHz
Frequencies == {1200, 3600}

\* Disks::refresh: the listed disks re-read their space figures; the list
\* itself is not enumerated again
Disks_refresh(listed, os, total_too) ==
    [i \in 1..Len(listed) |->
        [listed[i] EXCEPT !.available = os[i].available,
                          !.total = IF total_too THEN os[i].total ELSE @]]

\* the CpuRefreshKind of a tick
cpu_refresh_shifted(count) ==
    IF count % 10 = 1 THEN "everything" ELSE "cpu_usage"

cpu_refresh(count) ==
    IF count % 10 = 0 THEN "everything" ELSE "cpu_usage"

\* the condition of the DiskInfo rebuild
rebuild_due(count, last) == count - last >= 30

\* the loop over cached_disks.iter_mut().zip(disks.iter())
zip_available(cached, live) ==
    [i \in 1..Len(cached) |->
        IF i <= Len(live)
        THEN [cached[i] EXCEPT !.available = live[i].available]
        ELSE cached[i]]

\* no collect() yet
NotRefreshed == [cpu |-> "none", rebuilt |-> FALSE]

NoCollect ==
    /\ process_limit = 0
    /\ sys_processes = <<>>
    /\ processes = <<>>
    /\ collected = FALSE
    /\ tick_count = 0
    /\ disks_last_refresh = 0
    /\ disks = <<>>
    /\ cached_disks = <<>>
    /\ cpu_frequency = 0
    /\ os_disks = <<>>
    /\ os_frequency = 0
    /\ refreshed = NotRefreshed

\* what the collect() numbered count refreshed
Refreshed(count) ==
    IF count = 0 THEN NotRefreshed
    ELSE [cpu |-> cpu_refresh(count), rebuilt |-> count % 30 = 0]

\* Collector::with_process_limit and the tables the OS holds, count collects
\* later on an OS that did not change and showed no process until now
CollectInit(limits, tables, mounted, count) ==
    /\ process_limit \in limits
    /\ \E table \in tables :
           sys_processes = [i \in 1..Len(table) |-> ProcessInfo(table, i)]
    /\ processes = <<>>
    /\ collected = FALSE
    /\ tick_count = count
    /\ disks_last_refresh = 30 * (count \div 30)
    /\ os_disks \in mounted
    /\ disks = os_disks
    /\ cached_disks = disks
    /\ os_frequency \in Frequencies
    /\ cpu_frequency = os_frequency
    /\ refreshed = Refreshed(count)

collect ==
    LET limit == Min(process_limit, Len(sys_processes))
        count == tick_count + 1
        due   == rebuild_due(count, disks_last_refresh)
    IN  /\ tick_count < MaxCollects
        /\ tick_count' = count
        /\ cpu_frequency' = IF cpu_refresh(count) = "everything"
                            THEN os_frequency ELSE cpu_frequency
        /\ \E total_too \in BOOLEAN :
               disks' = Disks_refresh(disks, os_disks, total_too)
        /\ IF due
           THEN /\ disks_last_refresh' = count
                /\ cached_disks' = disks'
           ELSE /\ disks_last_refresh' = disks_last_refresh
                /\ cached_disks' = zip_available(cached_disks, disks')
        /\ refreshed' = [cpu |-> cpu_refresh(count), rebuilt |-> due]
        /\ \E selected \in (IF limit < Len(sys_processes)
                             THEN select_nth_unstable_by(sys_processes, limit)
                             ELSE {sys_processes}) :
               processes' = sort_by(IF limit < Len(sys_processes)
                                    THEN truncate(selected, limit)
                                    ELSE selected)
        /\ collected' = TRUE
        /\ UNCHANGED <<process_limit, sys_processes, os_disks, os_frequency>>

\* the OS between two collects: space is used or freed, a disk is resized,
\* the CPU changes frequency
OsChange ==
    /\ os_disks' \in {os_disks} \cup
           {[os_disks EXCEPT ![i].total = space[1],
                             ![i].available = space[2]] :
                i \in 1..Len(os_disks), space \in Spaces}
    /\ os_frequency' \in Frequencies
    /\ UNCHANGED <<process_limit, sys_processes, processes, collected,
                   tick_count, disks_last_refresh, disks, cached_disks,
                   cpu_frequency, refreshed>>

----------------------------------------------------------------------------
(* Windows: which processes get the uid sentinel 1 ("system") *)

\* a process name: stem and extension, as sysinfo reports it
ProcessName(stem, ext) == [stem |-> stem, ext |-> ext]

\* some entries of KNOWN
KNOWN == {ProcessName("System", ""), ProcessName("svchost", ".exe"),
          ProcessName("SppExtComObj", ".Exe")}

\* to_ascii_lowercase on the strings the model uses
ascii_lowercase ==
    [x \in {"System", "SYSTEM", "svchost", "SVCHOST", "SppExtComObj", "AnyDesk",
            "", ".exe", ".EXE", ".Exe", ".eXe",
            "Windows", "WINDOWS", "WindowsApps", "Program Files", "SystemRoot", "Users"} |->
        CASE x \in {"System", "SYSTEM"} -> "system"
          [] x \in {"svchost", "SVCHOST"} -> "svchost"
          [] x = "SppExtComObj" -> "sppextcomobj"
          [] x = "AnyDesk" -> "anydesk"
          [] x \in {".exe", ".EXE", ".Exe", ".eXe"} -> ".exe"
          [] x \in {"Windows", "WINDOWS"} -> "windows"
          [] x = "WindowsApps" -> "windowsapps"
          [] x = "Program Files" -> "program files"
          [] x = "SystemRoot" -> "systemroot"
          [] x = "Users" -> "users"
          [] OTHER -> x]

strip_exe(name) ==
    IF name.ext \in {".exe", ".EXE", ".Exe"} THEN ProcessName(name.stem, "") ELSE name

eq_ignore_ascii_case(a, b) ==
    /\ ascii_lowercase[a.stem] = ascii_lowercase[b.stem]
    /\ ascii_lowercase[a.ext] = ascii_lowercase[b.ext]

is_known_windows_system_process(name) ==
    \E k \in KNOWN : eq_ignore_ascii_case(strip_exe(k), strip_exe(name))

\* an executable path: "" (form "empty"), X:\dir\... (form "drive"),
\* \dir\... (form "rooted")
ExePath(form, dir) == [form |-> form, dir |-> dir]

is_windows_system_path(exe_path) ==
    IF exe_path.form = "empty" THEN FALSE
    ELSE \/ exe_path.form = "drive" /\ ascii_lowercase[exe_path.dir] = "windows"
         \/ exe_path.form = "rooted" /\ ascii_lowercase[exe_path.dir] = "systemroot"

\* the Win32 calls in the order made, p.failing being the first that fails;
\* EqualSid is reached only when none does
Win32Calls ==
    <<"OpenProcessToken(GetCurrentProcess)", "GetTokenInformation(our_token)",
      "OpenProcess", "OpenProcessToken(process)", "GetTokenInformation(token)">>

is_current_user_process(p) ==
    IF p.failing = Win32Calls[1] THEN FALSE
    ELSE IF p.failing = Win32Calls[2] THEN FALSE
    ELSE IF p.failing = Win32Calls[3] THEN FALSE
    ELSE IF p.failing = Win32Calls[4] THEN FALSE
    ELSE IF p.failing # Win32Calls[5] THEN p.owner = "user" ELSE FALSE

\* the same tests with the ownership test made last
is_system_process_owner_last(p) ==
    IF is_known_windows_system_process(p.name) THEN TRUE
    ELSE IF is_windows_system_path(p.exe_path) THEN TRUE
    ELSE IF is_current_user_process(p) THEN FALSE
    ELSE FALSE

is_system_process(p) ==
    IF is_current_user_process(p) THEN FALSE
    ELSE IF is_known_windows_system_process(p.name) THEN TRUE
    ELSE IF is_windows_system_path(p.exe_path) THEN TRUE
    ELSE FALSE

ProcessNames ==
    {ProcessName("svchost", ".exe"), ProcessName("SVCHOST", ".EXE"),
     ProcessName("svchost", ".eXe"), ProcessName("System", ""),
     ProcessName("AnyDesk", ".exe")}

ExePaths ==
    {ExePath("empty", ""), ExePath("drive", "Windows"), ExePath("drive", "WINDOWS"),
     ExePath("drive", "WindowsApps"), ExePath("drive", "Program Files"),
     ExePath("drive", "Users"), ExePath("rooted", "SystemRoot"),
     ExePath("rooted", "Windows")}

\* the processes of the table with what the token inspection of each gives
Inspectable ==
    [owner : {"user", "other"}, name : ProcessNames, exe_path : ExePaths,
     failing : {"none"} \cup {Win32Calls[i] : i \in 1..Len(Win32Calls)}]

NoProcess ==
    [owner |-> "none", name |-> ProcessName("", ""), exe_path |-> ExePath("empty", ""),
     failing |-> "none"]

NoClassify ==
    /\ inspected = NoProcess
    /\ uid = 0

\* get_system_pids and the uid of ProcessInfo, for one process of the table
classify ==
    \E p \in Inspectable :
        /\ inspected' = p
        /\ uid' = IF is_system_process(p) THEN 1 ELSE 0

----------------------------------------------------------------------------
(* Digger::update(Message::Tick): batching, live buffer, anomaly detection *)
(* The status line, the "current" snapshot and the History tab reload are  *)
(* presentation state and not modelled.                                    *)

\* const EVENT_LOG_MAX
EVENT_LOG_MAX == 100

\* "now_ts - self.last_db_flush >= 5.0"
DB_FLUSH_INTERVAL_SECS == 5

\* "if cpu_delta > 40.0"
CPU_SPIKE_DELTA == 40

\* "mem_pct > self.prev_mem_pct + 2.0"
MEM_RISE_DELTA == 2

\* "&& mem_pct > 80.0"
MEM_RISE_FLOOR == 80

\* "if max_temp > 85.0"
TEMP_ALERT_C == 85

\* live_buffer_size.clamp(30, 1000): the lower end
LiveBufferSizes == {30}

\* values of Snapshot.cpu_usage_global
CpuReadings == {10, 20, 60}

\* values of (Snapshot.memory_used, Snapshot.memory_total)
MemReadings ==
    {[used |-> 0, total |-> 0], [used |-> 70, total |-> 100],
     [used |-> 81, total |-> 100], [used |-> 84, total |-> 100]}

\* values of Snapshot.temperatures (temp_c of each sensor)
TempReadings == {<<>>, <<85>>, <<60, 90>>}

\* alert thresholds of the preferences (clamped to 10..100)
CpuThresholds == {50, 60}

\* memory alert thresholds the settings slider may send
MemSettings == {81, 84}

\* the alert thresholds of the Preferences
Preferences(cpu_threshold, mem_threshold) ==
    [cpu_alert_threshold |-> cpu_threshold, mem_alert_threshold |-> mem_threshold]

\* a preferences file nobody wrote: the defaults are read
NoPrefs == saved_prefs = Preferences(90, 90)

MemThresholds == {84}

\* the Snapshot collect() returns at time t
TickSnapshot(t, c, m, temps) ==
    [timestamp |-> t, cpu_usage_global |-> c, memory_used |-> m.used,
     memory_total |-> m.total, net_rx_bytes |-> 1, net_tx_bytes |-> 2,
     temperatures |-> temps]

TickSnapshots(t) ==
    {TickSnapshot(t, c, m, temps) : c \in CpuReadings, m \in MemReadings,
                                    temps \in TempReadings}

\* "let mem_pct = if snap.memory_total > 0 { used / total * 100.0 } else { 0.0 }"
mem_pct_of(snap) ==
    IF snap.memory_total > 0 THEN (snap.memory_used * 100) \div snap.memory_total ELSE 0

LivePoint(snap) ==
    [cpu |-> snap.cpu_usage_global, mem_pct |-> mem_pct_of(snap),
     net_rx |-> snap.net_rx_bytes, net_tx |-> snap.net_tx_bytes]

\* a LogEvent, its message reduced to which message it is, and the title of
\* the notification sent with it ("" when none is sent)
LogEvent(timestamp, severity, message, notification) ==
    [timestamp |-> timestamp, severity |-> severity, message |-> message,
     notification |-> notification]

\* a push that refuses the event when the log is full
push_event_keep_old(log, event) ==
    IF Len(log) >= EVENT_LOG_MAX THEN log ELSE Append(log, event)

\* the push_event closure
push_event(log, event) ==
    Append(IF Len(log) >= EVENT_LOG_MAX THEN Tail(log) ELSE log, event)

RECURSIVE push_events(_, _)
push_events(log, events) ==
    IF events = <<>> THEN log
    ELSE push_events(push_event(log, Head(events)), Tail(events))

\* no spike rule at all
cpu_spike_none(d, snap) == <<>>

\* "CPU spike: jumped more than 40% in one tick"
cpu_spike(d, snap) ==
    IF snap.cpu_usage_global - d.prev_cpu > CPU_SPIKE_DELTA
    THEN <<LogEvent(snap.timestamp, "Warning", "CPU spike", "Digger: CPU Spike")>>
    ELSE <<>>

\* a rise of exactly 2 points counts as rising
memory_rising_inclusive(d, snap) ==
    IF /\ mem_pct_of(snap) >= d.prev_mem_pct + MEM_RISE_DELTA
       /\ mem_pct_of(snap) > MEM_RISE_FLOOR
    THEN <<LogEvent(snap.timestamp, "Warning", "Memory rising", "")>>
    ELSE <<>>

\* "Memory monotonic rise detection"
memory_rising(d, snap) ==
    IF /\ mem_pct_of(snap) > d.prev_mem_pct + MEM_RISE_DELTA
       /\ mem_pct_of(snap) > MEM_RISE_FLOOR
    THEN <<LogEvent(snap.timestamp, "Warning", "Memory rising", "")>>
    ELSE <<>>

\* threshold alerts that fire on every tick at or above the threshold
critical_thresholds_level(d, snap) ==
    (IF snap.cpu_usage_global >= d.cpu_alert_threshold
     THEN <<LogEvent(snap.timestamp, "Critical", "CPU exceeded threshold",
                     "Digger: CPU Alert")>>
     ELSE <<>>)
    \o
    (IF mem_pct_of(snap) >= d.mem_alert_threshold
     THEN <<LogEvent(snap.timestamp, "Critical", "Memory exceeded threshold",
                     "Digger: Memory Alert")>>
     ELSE <<>>)

\* "Critical thresholds"
critical_thresholds(d, snap) ==
    (IF /\ snap.cpu_usage_global >= d.cpu_alert_threshold
        /\ d.prev_cpu < d.cpu_alert_threshold
     THEN <<LogEvent(snap.timestamp, "Critical", "CPU exceeded threshold",
                     "Digger: CPU Alert")>>
     ELSE <<>>)
    \o
    (IF /\ mem_pct_of(snap) >= d.mem_alert_threshold
        /\ d.prev_mem_pct < d.mem_alert_threshold
     THEN <<LogEvent(snap.timestamp, "Critical", "Memory exceeded threshold",
                     "Digger: Memory Alert")>>
     ELSE <<>>)

\* "Recovery events"
recovery_events(d, snap) ==
    (IF /\ snap.cpu_usage_global < d.cpu_alert_threshold
        /\ d.prev_cpu >= d.cpu_alert_threshold
     THEN <<LogEvent(snap.timestamp, "Info", "CPU recovered", "")>>
     ELSE <<>>)
    \o
    (IF /\ mem_pct_of(snap) < d.mem_alert_threshold
        /\ d.prev_mem_pct >= d.mem_alert_threshold
     THEN <<LogEvent(snap.timestamp, "Info", "Memory recovered", "")>>
     ELSE <<>>)

\* the reading of the first sensor only
max_temp_first(temperatures) ==
    IF temperatures = <<>> THEN 0 ELSE Head(temperatures)

\* "snap.temperatures.iter().map(|t| t.temp_c).fold(0.0_f32, f32::max)"
RECURSIVE fold_max(_, _)
fold_max(acc, temperatures) ==
    IF temperatures = <<>> THEN acc
    ELSE fold_max(IF Head(temperatures) > acc THEN Head(temperatures) ELSE acc,
                  Tail(temperatures))

max_temp(temperatures) == fold_max(0, temperatures)

\* "Temperature alerts"
temperature_alerts(d, snap) ==
    IF max_temp(snap.temperatures) > TEMP_ALERT_C
    THEN <<LogEvent(snap.timestamp, "Critical", "High temperature",
                    "Digger: Temperature Alert")>>
    ELSE <<>>

\* the events of one tick, in the order the handler pushes them
anomalies(d, snap) ==
    cpu_spike(d, snap) \o memory_rising(d, snap) \o critical_thresholds(d, snap)
    \o recovery_events(d, snap) \o temperature_alerts(d, snap)

\* the two weights exchanged
compute_heartbeat_bpm_swapped(cpu, mem) ==
    LET raw == 8000 + cpu * 35 + mem * 45
    IN  IF raw < 8000 THEN 8000 ELSE IF raw > 16000 THEN 16000 ELSE raw

\* compute_heartbeat_bpm, in hundredths:
\* (80.0 + cpu * 0.45 + mem_pct * 0.35).clamp(80.0, 160.0)
compute_heartbeat_bpm(cpu, mem) ==
    LET raw == 8000 + cpu * 45 + mem * 35
    IN  IF raw < 8000 THEN 8000 ELSE IF raw > 16000 THEN 16000 ELSE raw

NoFailure == [begin_fails |-> FALSE, fail_at |-> 0, prune_fails |-> FALSE]

flush_due_strict(d, now_ts) ==
    now_ts - d.last_db_flush > DB_FLUSH_INTERVAL_SECS \/ d.last_db_flush = 0

\* "now_ts - self.last_db_flush >= 5.0 || self.last_db_flush == 0.0"
flush_due(d, now_ts) ==
    now_ts - d.last_db_flush >= DB_FLUSH_INTERVAL_SECS \/ d.last_db_flush = 0

\* the Digger as a record
DiggerState ==
    [hist |-> Observed, buf |-> buf, capacity |-> capacity, pushed |-> pushed,
     refresh_interval_secs |-> refresh_interval_secs, now |-> now,
     pending_snapshots |-> pending_snapshots, last_db_flush |-> last_db_flush,
     cpu_alert_threshold |-> cpu_alert_threshold,
     mem_alert_threshold |-> mem_alert_threshold, event_log |-> event_log,
     prev_cpu |-> prev_cpu, prev_mem_pct |-> prev_mem_pct,
     health_score |-> health_score, ticks |-> ticks, emitted |-> emitted]

\* the Message::Tick arm of Digger::update, collect() returning snap and the
\* store behaving as env says
tick(d, snap, env) ==
    LET now_ts == snap.timestamp
        pending == Append(d.pending_snapshots, snap)
        flush == flush_due(d, now_ts)
        events == anomalies(d, snap)
    IN  [hist |-> IF flush THEN called(d.hist, "record_batch", pending, env) ELSE d.hist,
         pending_snapshots |-> IF flush THEN <<>> ELSE pending,
         last_db_flush |-> IF flush THEN now_ts ELSE d.last_db_flush,
         buf |-> push_item(d.buf, d.capacity, LivePoint(snap)),
         capacity |-> d.capacity,
         pushed |-> Append(d.pushed, LivePoint(snap)),
         event_log |-> push_events(d.event_log, events),
         prev_cpu |-> snap.cpu_usage_global,
         prev_mem_pct |-> mem_pct_of(snap),
         health_score |-> compute_heartbeat_bpm(snap.cpu_usage_global, mem_pct_of(snap)),
         refresh_interval_secs |-> d.refresh_interval_secs,
         now |-> now_ts,
         cpu_alert_threshold |-> d.cpu_alert_threshold,
         mem_alert_threshold |-> d.mem_alert_threshold,
         ticks |-> Append(d.ticks, [snap |-> snap, events |-> events,
                                    prev_cpu |-> d.prev_cpu,
                                    prev_mem_pct |-> d.prev_mem_pct,
                                    cpu_alert_threshold |-> d.cpu_alert_threshold,
                                    mem_alert_threshold |-> d.mem_alert_threshold,
                                    flushed |-> flush,
                                    health_score |->
                                        compute_heartbeat_bpm(snap.cpu_usage_global,
                                                              mem_pct_of(snap))]),
         emitted |-> d.emitted \o events]

\* History::open on a fresh store file, which opens or does not
Opened(available) ==
    LET error == IF available THEN "None" ELSE "InitFailed"
    IN  [conn |-> available, retention_secs |-> DEFAULT_RETENTION_SECS,
         last_prune_time |-> 0, last_error |-> error, db |-> {},
         op |-> [name |-> "open", snapshots |-> <<>>, outcome |-> "none",
                 inserted |-> 0, pruned |-> FALSE, prune_failed |-> FALSE,
                 before |-> [db |-> {}, last_prune_time |-> 0, last_error |-> error]],
         handed |-> 0, recorded |-> {}, latest |-> 0, clean |-> TRUE]

\* Digger::new: the first snapshot is recorded and pushed at once
NewDigger(available, snap, live_max, interval, cpu_threshold, mem_threshold) ==
    [hist |-> called(Opened(available), "record", <<snap>>, NoFailure),
     buf |-> push_item(<<>>, live_max, LivePoint(snap)),
     capacity |-> live_max,
     pushed |-> <<LivePoint(snap)>>,
     refresh_interval_secs |-> interval,
     now |-> snap.timestamp,
     pending_snapshots |-> <<>>,
     last_db_flush |-> 0,
     cpu_alert_threshold |-> cpu_threshold,
     mem_alert_threshold |-> mem_threshold,
     event_log |-> <<>>,
     prev_cpu |-> snap.cpu_usage_global,
     prev_mem_pct |-> mem_pct_of(snap),
     health_score |-> 10000,
     ticks |-> <<>>,
     emitted |-> <<>>]

\* the variables of the Digger have the values of d
IsDigger(d) ==
    /\ conn = d.hist.conn /\ retention_secs = d.hist.retention_secs
    /\ last_prune_time = d.hist.last_prune_time /\ last_error = d.hist.last_error
    /\ db = d.hist.db /\ op = d.hist.op /\ handed = d.hist.handed
    /\ recorded = d.hist.recorded /\ latest = d.hist.latest /\ clean = d.hist.clean
    /\ retention_hours = DEFAULT_RETENTION_HOURS
    /\ buf = d.buf /\ capacity = d.capacity /\ pushed = d.pushed
    /\ refresh_interval_secs = d.refresh_interval_secs /\ now = d.now
    /\ pending_snapshots = d.pending_snapshots /\ last_db_flush = d.last_db_flush
    /\ cpu_alert_threshold = d.cpu_alert_threshold
    /\ mem_alert_threshold = d.mem_alert_threshold
    /\ event_log = d.event_log /\ prev_cpu = d.prev_cpu
    /\ prev_mem_pct = d.prev_mem_pct /\ health_score = d.health_score
    /\ ticks = d.ticks /\ emitted = d.emitted

\* the variables of the Digger take the values of d
SetDigger(d) ==
    /\ SetHistory(d.hist)
    /\ buf' = d.buf /\ pushed' = d.pushed
    /\ pending_snapshots' = d.pending_snapshots /\ last_db_flush' = d.last_db_flush
    /\ event_log' = d.event_log /\ prev_cpu' = d.prev_cpu
    /\ prev_mem_pct' = d.prev_mem_pct /\ health_score' = d.health_score
    /\ now' = d.now /\ ticks' = d.ticks /\ emitted' = d.emitted
    /\ UNCHANGED <<capacity, refresh_interval_secs, cpu_alert_threshold,
                   mem_alert_threshold>>

\* the store environments that differ in what this tick executes
TickEnvs(d, snap) ==
    IF flush_due(d, snap.timestamp)
    THEN {env \in Envs(Append(d.pending_snapshots, snap)) :
             Relevant(d.hist, Append(d.pending_snapshots, snap), env)}
    ELSE {NoFailure}

\* Message::Tick with a snapshot out of snaps
TickWith(snaps) ==
    \E snap \in snaps : \E env \in TickEnvs(DiggerState, snap) :
        SetDigger(tick(DiggerState, snap, env))

\* Message::Tick, one refresh interval after the last collect()
Tick ==
    /\ Len(ticks) < MaxTicks
    /\ TickWith(TickSnapshots(now + refresh_interval_secs))
    /\ UNCHANGED <<readVars, collectVars, classVars, gpuVars, refreshVars, prefsVars>>

\* the CPU readings of the three ticks of the alert scenario
ScenarioCpu == <<10, 60, 20>>

\* snapshots whose memory and temperature trigger nothing
Quiet(snap) ==
    /\ mem_pct_of(snap) <= MEM_RISE_FLOOR
    /\ max_temp(snap.temperatures) <= TEMP_ALERT_C

\* the next tick of the scenario
ScenarioTick ==
    /\ Len(ticks) < Len(ScenarioCpu)
    /\ TickWith({snap \in TickSnapshots(now + refresh_interval_secs) :
                    /\ snap.cpu_usage_global = ScenarioCpu[Len(ticks) + 1]
                    /\ Quiet(snap)})
    /\ UNCHANGED <<readVars, collectVars, classVars, gpuVars, refreshVars, prefsVars>>

\* readings around the limits of the delta rules: CPU rising by exactly 40
\* and by more, memory rising by exactly 2 and by more, to exactly 80 and
\* above it
DeltaMemReadings ==
    {[used |-> 77, total |-> 100], [used |-> 80, total |-> 100],
     [used |-> 81, total |-> 100], [used |-> 83, total |-> 100]}

DeltaSnapshots(t) ==
    {TickSnapshot(t, c, m, <<>>) : c \in CpuReadings, m \in DeltaMemReadings}

\* Message::Tick with one of these readings
DeltaTick ==
    /\ Len(ticks) < MaxTicks
    /\ TickWith(DeltaSnapshots(now + refresh_interval_secs))
    /\ UNCHANGED <<readVars, collectVars, classVars, gpuVars, refreshVars, prefsVars>>

\* one reading, collected on time or one interval late
FlushSnapshots(t, interval) ==
    {TickSnapshot(stamp, 10, [used |-> 70, total |-> 100], <<>>) :
        stamp \in {t + interval, t + 2 * interval}}

\* Message::Tick, the timer firing on time or late
FlushTick ==
    /\ Len(ticks) < MaxFlushTicks
    /\ TickWith(FlushSnapshots(now, refresh_interval_secs))
    /\ UNCHANGED <<readVars, collectVars, classVars, gpuVars, refreshVars, prefsVars>>

\* readings below, between and above the two thresholds of each metric
LatchSnapshots(t) ==
    {TickSnapshot(t, c, m, <<>>) :
        c \in {10, 55, 60},
        m \in {[used |-> 70, total |-> 100], [used |-> 81, total |-> 100],
               [used |-> 84, total |-> 100]}}

\* Message::Tick with one of these readings
LatchTick ==
    /\ Len(ticks) < MaxTicks
    /\ TickWith(LatchSnapshots(now + refresh_interval_secs))
    /\ UNCHANGED <<readVars, collectVars, classVars, gpuVars, refreshVars, prefsVars>>

\* save_prefs: the preferences file takes the thresholds, or the write fails
save_prefs(cpu_threshold, mem_threshold) ==
    saved_prefs' \in {Preferences(cpu_threshold, mem_threshold), saved_prefs}

\* Message::SetCpuAlertThreshold(v)
SetCpuAlertThreshold(v) ==
    /\ cpu_alert_threshold' = v
    /\ save_prefs(v, mem_alert_threshold)
    /\ UNCHANGED <<ringVars, histVars, readVars, collectVars, classVars, gpuVars,
                   refreshVars, refresh_interval_secs, now, pending_snapshots,
                   last_db_flush, mem_alert_threshold, event_log, prev_cpu,
                   prev_mem_pct, health_score, ticks, emitted>>

\* Message::SetMemAlertThreshold(v)
SetMemAlertThreshold(v) ==
    /\ mem_alert_threshold' = v
    /\ save_prefs(cpu_alert_threshold, v)
    /\ UNCHANGED <<ringVars, histVars, readVars, collectVars, classVars, gpuVars,
                   refreshVars, refresh_interval_secs, now, pending_snapshots,
                   last_db_flush, cpu_alert_threshold, event_log, prev_cpu,
                   prev_mem_pct, health_score, ticks, emitted>>

\* readings from an idle to a saturated machine
HealthSnapshots(t) ==
    {TickSnapshot(t, c, m, <<>>) :
        c \in {0, 50, 100},
        m \in {[used |-> 0, total |-> 0], [used |-> 40, total |-> 100],
               [used |-> 100, total |-> 100]}}

\* Message::Tick with one of these readings
HealthTick ==
    /\ Len(ticks) < MaxTicks
    /\ TickWith(HealthSnapshots(now + refresh_interval_secs))
    /\ UNCHANGED <<readVars, collectVars, classVars, gpuVars, refreshVars, prefsVars>>

\* a snapshot with an idle CPU, idle memory and a hot sensor
HotSnapshot(t) == TickSnapshot(t, 10, [used |-> 0, total |-> 0], <<60, 90>>)

\* d after n ticks that see HotSnapshot: the first half of them, then the rest
RECURSIVE after_hot_ticks(_, _)
after_hot_ticks(d, n) ==
    IF n = 0 THEN d
    ELSE IF n = 1
    THEN tick(d, HotSnapshot(d.now + d.refresh_interval_secs), NoFailure)
    ELSE LET half == after_hot_ticks(d, n \div 2)
         IN  IF half.now > d.now THEN after_hot_ticks(half, n - (n \div 2)) ELSE half

----------------------------------------------------------------------------
(* The caches that a background worker refreshes (src/src/gpu.rs,          *)
(* src/src/metrics.rs, Windows): the entry point never runs the slow query *)
(* itself.  Each lock section of the source is one step.                   *)

\* const NVIDIA_SMI_TTL_SECS_WIN
NVIDIA_SMI_TTL_SECS_WIN == 5

\* const WMI_GPU_TTL_SECS
WMI_GPU_TTL_SECS == 3

\* const TTL_SECS of collect_wmi_temperatures
TTL_SECS == 3

\* the three cached backends, by their entry point
CacheNames == {"collect_nvidia_smi_windows", "collect_wmi_gpu", "collect_wmi_temperatures"}

TTL(name) ==
    CASE name = "collect_nvidia_smi_windows" -> NVIDIA_SMI_TTL_SECS_WIN
      [] name = "collect_wmi_gpu" -> WMI_GPU_TTL_SECS
      [] OTHER -> TTL_SECS

\* Option<(Instant, Vec<_>)>
None == [some |-> FALSE, ts |-> 0, data |-> <<>>]

Some(ts, data) == [some |-> TRUE, ts |-> ts, data |-> data]

\* the first lock section of an entry point: a fresh value is returned at
\* once, a stale one is kept as `cached`
read_cache(c, now_ts, ttl) ==
    IF c.some /\ now_ts - c.ts < ttl
    THEN [returned |-> TRUE, ret |-> c.data, cached |-> None]
    ELSE [returned |-> FALSE, ret |-> <<>>,
          cached |-> IF c.some THEN Some(0, c.data) ELSE None]

\* a slow path that gives up the stale value
stale_value_dropped(name, cached) == <<>>

\* the value returned on the slow path:
\* "match cached { Some(gpus) if !gpus.is_empty() => .., _ => default }" in
\* collect_nvidia_smi_windows, "cached.unwrap_or_default()" in the two others
stale_value(name, cached) ==
    IF name = "collect_nvidia_smi_windows"
    THEN IF cached.some /\ cached.data # <<>> THEN cached.data ELSE <<>>
    ELSE IF cached.some THEN cached.data ELSE <<>>

\* a refresh worker just spawned for the backend
Worker(name) == [cache |-> name, pc |-> "query", result |-> <<>>, stored_at |-> 0]

\* the statics as a record
RefreshState ==
    [cache |-> cache, refresh_running |-> refresh_running, workers |-> workers]

\* an entry point run by one thread with no other caller beside it
entry(st, name, now_ts) ==
    LET r == read_cache(st.cache[name], now_ts, TTL(name))
        already_running == st.refresh_running[name]
    IN  IF r.returned THEN [ret |-> r.ret, st |-> st]
        ELSE [ret |-> stale_value(name, r.cached),
              st |-> IF already_running THEN st
                     ELSE [st EXCEPT !.refresh_running[name] = TRUE,
                                     !.workers = Append(@, Worker(name))]]

\* struct GpuInfo
GpuInfo(name, temperature, utilization, memory_used, memory_total, power_watts) ==
    [name |-> name, temperature |-> temperature, utilization |-> utilization,
     memory_used |-> memory_used, memory_total |-> memory_total,
     power_watts |-> power_watts]

\* "nvidia-smi reports memory in MiB"
MiB == 1024 * 1024

\* devices the Windows backends report
WinGpus(name) ==
    IF name = "collect_nvidia_smi_windows"
    THEN {<<>>, <<GpuInfo(<<"NVIDIA", "GeForce", "RTX">>, 45, 3, MiB, 8 * MiB, 305)>>}
    ELSE {<<>>, <<GpuInfo(<<"Intel", "UHD">>, 0, 0, 0, 2 * MiB, 0)>>}

\* the threads that call the entry points: the UI thread (Collector::collect
\* in Digger::update) and a thread of the test harness
CallerThreads == {"ui", "test"}

\* a thread outside of any entry point, with what its last call did
Idle(calls, last) ==
    [pc |-> "idle", name |-> "", cached |-> None, calls |-> calls, last |-> last]

\* no call made yet
NoCall ==
    [name |-> "", seen |-> None, fast |-> FALSE, ret |-> <<>>,
     already_running |-> FALSE, pending |-> FALSE, in_flight |-> FALSE]

\* what the slow query of a backend may yield
Results(name) ==
    IF name = "collect_wmi_temperatures"
    THEN {<<>>, <<[label |-> "Thermal Zone", temp_c |-> 50]>>}
    ELSE WinGpus(name)

\* the workers of a cache that have not finished
InFlight(name) ==
    {w \in 1..Len(workers) : workers[w].cache = name /\ workers[w].pc # "done"}

\* a refresh of the cache has started and its result is not in the cache
Pending(name) ==
    \/ \E w \in 1..Len(workers) : workers[w].cache = name /\ workers[w].pc = "query"
    \/ \E t \in CallerThreads : callers[t].pc = "spawn" /\ callers[t].name = name

\* the calls made so far by all threads
RECURSIVE CallsOf(_)
CallsOf(threads) ==
    IF threads = {} THEN 0
    ELSE LET t == CHOOSE x \in threads : TRUE
         IN  callers[t].calls + CallsOf(threads \ {t})

Calls == CallsOf(CallerThreads)

\* no entry point of another backend has been called: the statics of the
\* backends are disjoint, and a behaviour follows one of them
Targeted(name) ==
    \A t \in CallerThreads : callers[t].last.name \in {"", name}

\* a thread enters an entry point and runs its first lock section
CallEntry(t, name) ==
    /\ callers[t].pc = "idle"
    /\ Calls < MaxCalls
    /\ Targeted(name)
    /\ LET r == read_cache(cache[name], clock, TTL(name))
           call == [NoCall EXCEPT !.name = name, !.seen = cache[name],
                                  !.fast = r.returned, !.ret = r.ret,
                                  !.in_flight = InFlight(name) # {}]
       IN  callers' = [callers EXCEPT ![t] =
                          IF r.returned THEN Idle(callers[t].calls + 1, call)
                          ELSE [pc |-> "check_running", name |-> name,
                                cached |-> r.cached,
                                calls |-> callers[t].calls + 1, last |-> call]]
    /\ UNCHANGED <<clock, cache, refresh_running, workers>>

\* "let already_running = REFRESH_RUNNING.lock().map(|g| *g).unwrap_or(false)"
CheckRunning(t) ==
    /\ callers[t].pc = "check_running"
    /\ LET c == callers[t]
           already_running == refresh_running[c.name]
           call == [c.last EXCEPT !.already_running = already_running,
                                  !.pending = Pending(c.name),
                                  !.ret = stale_value(c.name, c.cached)]
       IN  callers' = [callers EXCEPT ![t] =
                          IF already_running THEN Idle(c.calls, call)
                          ELSE [c EXCEPT !.pc = "set_running", !.last = call]]
    /\ UNCHANGED <<clock, cache, refresh_running, workers>>

\* "if let Ok(mut g) = REFRESH_RUNNING.lock() { *g = true; }"
SetRunning(t) ==
    /\ callers[t].pc = "set_running"
    /\ refresh_running' = [refresh_running EXCEPT ![callers[t].name] = TRUE]
    /\ callers' = [callers EXCEPT ![t].pc = "spawn"]
    /\ UNCHANGED <<clock, cache, workers>>

\* "std::thread::spawn(...)", after which the entry point returns
Spawn(t) ==
    /\ callers[t].pc = "spawn"
    /\ workers' = Append(workers, Worker(callers[t].name))
    /\ callers' = [callers EXCEPT ![t] = Idle(callers[t].calls, callers[t].last)]
    /\ UNCHANGED <<clock, cache, refresh_running>>

\* the worker's query returns and "*guard = Some((Instant::now(), result))"
WorkerStore(w) ==
    /\ workers[w].pc = "query"
    /\ \E data \in Results(workers[w].cache) :
          /\ cache' = [cache EXCEPT ![workers[w].cache] = Some(clock, data)]
          /\ workers' = [workers EXCEPT ![w] = [@ EXCEPT !.pc = "reset", !.result = data,
                                                         !.stored_at = clock]]
    /\ UNCHANGED <<clock, refresh_running, callers>>

\* the worker's "*g = false", after which it ends
WorkerReset(w) ==
    /\ workers[w].pc = "reset"
    /\ refresh_running' = [refresh_running EXCEPT ![workers[w].cache] = FALSE]
    /\ workers' = [workers EXCEPT ![w] = [Worker(@.cache) EXCEPT !.pc = "done"]]
    /\ UNCHANGED <<clock, cache, callers>>

\* the model follows the clock until the longest TTL has run out
Horizon == NVIDIA_SMI_TTL_SECS_WIN

\* a second passes
Advance ==
    /\ clock < Horizon
    /\ clock' = clock + 1
    /\ UNCHANGED <<cache, refresh_running, workers, callers>>

\* a step of a thread inside an entry point
CallerStep(t) == CheckRunning(t) \/ SetRunning(t) \/ Spawn(t)

\* a step of a refresh worker
WorkerStep(w) == WorkerStore(w) \/ WorkerReset(w)

\* the statics before any call, every thread outside the entry points
RefreshInit ==
    /\ clock = 0
    /\ cache = [name \in CacheNames |-> None]
    /\ refresh_running = [name \in CacheNames |-> FALSE]
    /\ workers = <<>>
    /\ callers = [t \in CallerThreads |-> Idle(0, NoCall)]

NoRefresh ==
    /\ clock = 0
    /\ cache = [name \in CacheNames |-> None]
    /\ refresh_running = [name \in CacheNames |-> FALSE]
    /\ workers = <<>>
    /\ callers = <<>>

----------------------------------------------------------------------------
(* GPU detection cascade (src/src/gpu.rs).  Temperatures are whole         *)
(* degrees, power is in tenths of a watt, a name is the sequence of its    *)
(* words, a line of nvidia-smi output the sequence of its fields.          *)

\* const NVIDIA_SMI_TTL_SECS
NVIDIA_SMI_TTL_SECS == 5

\* name.contains("NVIDIA")
contains_NVIDIA(name) == \E i \in 1..Len(name) : name[i] = "NVIDIA"

\* a field of a CSV line: a number, or text that does not parse as one
Num(n) == [numeric |-> TRUE, value |-> n, words |-> <<>>]

Text(words) == [numeric |-> FALSE, value |-> 0, words |-> words]

\* fields[i].parse().unwrap_or(0)
parse_or_zero(field) == IF field.numeric THEN field.value ELSE 0

\* the loop over stdout.lines() of query_nvidia_smi_uncached
RECURSIVE parse_lines(_)
parse_lines(stdout) ==
    IF stdout = <<>> THEN <<>>
    ELSE LET fields == Head(stdout)
         IN  IF Len(fields) < 6 THEN parse_lines(Tail(stdout))
             ELSE <<GpuInfo(fields[1].words, parse_or_zero(fields[2]),
                            parse_or_zero(fields[3]), parse_or_zero(fields[4]) * MiB,
                            parse_or_zero(fields[5]) * MiB, parse_or_zero(fields[6]))>>
                  \o parse_lines(Tail(stdout))

\* query_nvidia_smi_uncached: no devices when the command cannot be run or
\* exits with an error
query_nvidia_smi_uncached(cli) == IF cli.ok THEN parse_lines(cli.stdout) ELSE <<>>

\* query_nvidia_smi: the cached devices while they are younger than the TTL,
\* else a fresh query that replaces the cache
query_nvidia_smi(c, now_ts, cli) ==
    IF c.some /\ now_ts - c.ts < NVIDIA_SMI_TTL_SECS
    THEN [gpus |-> c.data, cache |-> c]
    ELSE [gpus |-> query_nvidia_smi_uncached(cli),
          cache |-> Some(now_ts, query_nvidia_smi_uncached(cli))]

\* collect_sysfs: the cards that have at least a name or some data
collect_sysfs(cards) ==
    SelectSeq(cards, LAMBDA g : ~(/\ g.name = <<>> /\ g.temperature = 0
                                  /\ g.utilization = 0 /\ g.memory_total = 0))

\* "Only bother if there's at least one GPU with missing data"
needs_enrichment(gpus) ==
    \E i \in 1..Len(gpus) :
        /\ contains_NVIDIA(gpus[i].name)
        /\ (gpus[i].temperature = 0 \/ gpus[i].memory_total = 0 \/ gpus[i].power_watts = 0)

\* a merge that prefers the CLI's temperature
merge_overwrite(gpu, smi) ==
    [name |-> IF smi.name # <<>> THEN smi.name ELSE gpu.name,
     temperature |-> IF smi.temperature # 0 THEN smi.temperature ELSE gpu.temperature,
     utilization |-> IF gpu.utilization = 0 /\ smi.utilization # 0
                     THEN smi.utilization ELSE gpu.utilization,
     memory_total |-> IF gpu.memory_total = 0 /\ smi.memory_total # 0
                      THEN smi.memory_total ELSE gpu.memory_total,
     memory_used |-> IF gpu.memory_total = 0 /\ smi.memory_total # 0
                     THEN smi.memory_used ELSE gpu.memory_used,
     power_watts |-> IF gpu.power_watts = 0 /\ smi.power_watts # 0
                     THEN smi.power_watts ELSE gpu.power_watts]

\* the body of the enrichment loop for one NVIDIA device and its CLI entry
merge(gpu, smi) ==
    [name |-> IF smi.name # <<>> THEN smi.name ELSE gpu.name,
     temperature |-> IF gpu.temperature = 0 /\ smi.temperature # 0
                     THEN smi.temperature ELSE gpu.temperature,
     utilization |-> IF gpu.utilization = 0 /\ smi.utilization # 0
                     THEN smi.utilization ELSE gpu.utilization,
     memory_total |-> IF gpu.memory_total = 0 /\ smi.memory_total # 0
                      THEN smi.memory_total ELSE gpu.memory_total,
     memory_used |-> IF gpu.memory_total = 0 /\ smi.memory_total # 0
                     THEN smi.memory_used ELSE gpu.memory_used,
     power_watts |-> IF gpu.power_watts = 0 /\ smi.power_watts # 0
                     THEN smi.power_watts ELSE gpu.power_watts]

\* "Match by index (nvidia-smi lists GPUs in order)"
RECURSIVE enrich_loop(_, _, _)
enrich_loop(gpus, smi_gpus, smi_idx) ==
    IF gpus = <<>> THEN <<>>
    ELSE IF ~contains_NVIDIA(Head(gpus).name)
    THEN <<Head(gpus)>> \o enrich_loop(Tail(gpus), smi_gpus, smi_idx)
    ELSE IF smi_idx >= Len(smi_gpus) THEN gpus
    ELSE <<merge(Head(gpus), smi_gpus[smi_idx + 1])>>
         \o enrich_loop(Tail(gpus), smi_gpus, smi_idx + 1)

\* enrich_with_nvidia_smi
enrich_with_nvidia_smi(gpus, c, now_ts, cli) ==
    IF ~needs_enrichment(gpus) THEN [gpus |-> gpus, cache |-> c]
    ELSE LET q == query_nvidia_smi(c, now_ts, cli)
         IN  [gpus |-> enrich_loop(gpus, q.gpus, 0), cache |-> q.cache]

\* one backend tried by the cascade and what it returned
Tried(backend, gpus) == [backend |-> backend, gpus |-> gpus]

\* the statics of gpu.rs as a record
GpuState == [nvidia_smi_cache |-> nvidia_smi_cache, refresh |-> RefreshState]

\* the outcome of collect_gpu_info: the snapshot, the backends tried, and
\* the statics afterwards
GpuOutcome(gpus, tried, st) == [gpus |-> gpus, tried |-> tried, st |-> st]

\* "1. Try NVML (feature-gated, NVIDIA only)"
nvml_stage(build, probe) ==
    IF build.gpu_feature THEN <<Tried("nvml", probe.nvml)>> ELSE <<>>

\* the cascade with the standalone CLI asked before sysfs
linux_stage_cli_first(probe, st, now_ts, tried) ==
    LET q == query_nvidia_smi(st.nvidia_smi_cache, now_ts, probe.cli)
        sysfs == collect_sysfs(probe.sysfs)
        after == [st EXCEPT !.nvidia_smi_cache = q.cache]
    IN  IF q.gpus # <<>>
        THEN GpuOutcome(q.gpus, tried \o <<Tried("sysfs", sysfs), Tried("nvidia-smi", q.gpus)>>,
                        after)
        ELSE GpuOutcome(sysfs, tried \o <<Tried("sysfs", sysfs)>>, after)

\* "2. Try sysfs (Linux, all vendors)" to "4. ... try nvidia-smi standalone"
linux_stage(probe, st, now_ts, tried) ==
    LET sysfs == collect_sysfs(probe.sysfs)
    IN  IF sysfs # <<>>
        THEN LET e == enrich_with_nvidia_smi(sysfs, st.nvidia_smi_cache, now_ts, probe.cli)
             IN  GpuOutcome(e.gpus, tried \o <<Tried("sysfs", e.gpus)>>,
                            [st EXCEPT !.nvidia_smi_cache = e.cache])
        ELSE LET q == query_nvidia_smi(st.nvidia_smi_cache, now_ts, probe.cli)
             IN  GpuOutcome(q.gpus,
                            tried \o <<Tried("sysfs", sysfs), Tried("nvidia-smi", q.gpus)>>,
                            [st EXCEPT !.nvidia_smi_cache = q.cache])

\* "5. Windows: try nvidia-smi, then WMI for all GPUs"
windows_stage(st, now_ts, tried) ==
    LET smi == entry(st.refresh, "collect_nvidia_smi_windows", now_ts)
        wmi == entry(smi.st, "collect_wmi_gpu", now_ts)
    IN  IF smi.ret # <<>>
        THEN GpuOutcome(smi.ret, tried \o <<Tried("nvidia-smi", smi.ret)>>,
                        [st EXCEPT !.refresh = smi.st])
        ELSE GpuOutcome(wmi.ret,
                        tried \o <<Tried("nvidia-smi", smi.ret), Tried("wmi", wmi.ret)>>,
                        [st EXCEPT !.refresh = wmi.st])

\* collect_gpu_info
collect_gpu_info(build, probe, st, now_ts) ==
    LET first == nvml_stage(build, probe)
    IN  IF first # <<>> /\ first[1].gpus # <<>>
        THEN GpuOutcome(first[1].gpus, first, st)
        ELSE IF build.target_os = "linux" THEN linux_stage(probe, st, now_ts, first)
        ELSE IF build.target_os = "windows" THEN windows_stage(st, now_ts, first)
        ELSE GpuOutcome(<<>>, first, st)

\* the cards read_gpu_from_sysfs may read: NVIDIA cards with nothing but a
\* name, without power, and complete but idle; an AMD card; a card with an
\* empty label and no data
SysfsCards ==
    {GpuInfo(<<"NVIDIA", "(nvidia)">>, 0, 0, 0, 0, 0),
     GpuInfo(<<"NVIDIA", "(nvidia)">>, 40, 20, 0, 0, 0),
     GpuInfo(<<"NVIDIA", "(nvidia)">>, 41, 0, 10, 100, 200),
     GpuInfo(<<"AMD", "(amdgpu)">>, 55, 10, 50, 400, 0),
     GpuInfo(<<>>, 0, 0, 0, 0, 0)}

\* lines nvidia-smi may print: a full line, a line of an older card with
\* fields [N/A], an error message, a line with an empty name
CliLines ==
    {<<Text(<<"NVIDIA", "GeForce", "RTX">>), Num(45), Num(3), Num(1), Num(8), Num(305)>>,
     <<Text(<<"GeForce", "GTX">>), Num(50), Text(<<"[N/A]">>), Text(<<"[N/A]">>),
       Text(<<"[N/A]">>), Text(<<"[N/A]">>)>>,
     <<Text(<<"No", "devices", "were", "found">>)>>,
     <<Text(<<>>), Num(60), Num(10), Num(2), Num(4), Num(100)>>}

\* what running nvidia-smi yields
CliOutputs ==
    {[ok |-> FALSE, stdout |-> <<>>]}
    \cup {[ok |-> TRUE, stdout |-> out] : out \in SeqsUpTo(CliLines, MaxGpus)}

\* the devices NVML reports
NvmlGpus == {<<>>, <<GpuInfo(<<"NVIDIA", "A100">>, 30, 5, 1, 40, 500)>>}

\* what the probes of one call yield
GpuProbes ==
    [nvml : NvmlGpus, sysfs : SeqsUpTo(SysfsCards, MaxGpus), cli : CliOutputs]

\* a probe on a system without NVML, sysfs cards and nvidia-smi
NoProbe == [nvml |-> <<>>, sysfs |-> <<>>, cli |-> [ok |-> FALSE, stdout |-> <<>>]]

\* the time of the call, and cache timestamps younger than every TTL and
\* older than every TTL
CallTime == 10

FreshStamp == 8

StaleStamp == 3

\* states of NVIDIA_SMI_CACHE (Linux): never filled, fresh, stale
SmiCaches ==
    {None}
    \cup {Some(ts, parse_lines(<<line>>)) : ts \in {FreshStamp, StaleStamp}, line \in CliLines}

\* states of one Windows cache with its flag: the worker in flight, if any,
\* is about to store its result (cache never filled or stale) or about to
\* reset the flag (cache fresh)
WinCaches(name) ==
    {[cache |-> c, running |-> r] :
        c \in {None} \cup {Some(ts, data) : ts \in {FreshStamp, StaleStamp},
                                            data \in WinGpus(name)},
        r \in BOOLEAN}

\* the refresh statics with the two GPU caches in states a and b
WinRefresh(a, b) ==
    LET of(name) == IF name = "collect_nvidia_smi_windows" THEN a
                    ELSE IF name = "collect_wmi_gpu" THEN b
                    ELSE [cache |-> None, running |-> FALSE]
        worker(name) ==
            IF ~of(name).running THEN <<>>
            ELSE IF of(name).cache.some /\ of(name).cache.ts = FreshStamp
            THEN <<[cache |-> name, pc |-> "reset", result |-> of(name).cache.data,
                    stored_at |-> FreshStamp]>>
            ELSE <<Worker(name)>>
    IN  [cache |-> [name \in CacheNames |-> of(name).cache],
         refresh_running |-> [name \in CacheNames |-> of(name).running],
         workers |-> worker("collect_nvidia_smi_windows") \o worker("collect_wmi_gpu")]

\* no call of collect_gpu_info yet
NoSnapshot == [gpus |-> <<>>, tried |-> <<>>, cli |-> <<>>]

NoGpu ==
    /\ gpu_build = [target_os |-> "other", gpu_feature |-> FALSE]
    /\ gpu_probe = NoProbe
    /\ nvidia_smi_cache = None
    /\ gpu_snapshot = NoSnapshot
    /\ gpu_called = FALSE

\* a build on Linux, on Windows or elsewhere, with or without NVML, just
\* before collect_gpu_info is called at CallTime
GpuInit ==
    /\ gpu_snapshot = NoSnapshot
    /\ gpu_called = FALSE
    /\ clock = CallTime
    /\ callers = <<>>
    /\ \E feature \in BOOLEAN :
          \/ /\ gpu_build = [target_os |-> "linux", gpu_feature |-> feature]
             /\ gpu_probe \in {p \in GpuProbes : feature \/ p.nvml = <<>>}
             /\ nvidia_smi_cache \in SmiCaches
             /\ cache = [name \in CacheNames |-> None]
             /\ refresh_running = [name \in CacheNames |-> FALSE]
             /\ workers = <<>>
          \/ /\ gpu_build = [target_os |-> "windows", gpu_feature |-> feature]
             /\ gpu_probe \in {[NoProbe EXCEPT !.nvml = n] :
                                  n \in IF feature THEN NvmlGpus ELSE {<<>>}}
             /\ nvidia_smi_cache = None
             /\ \E a \in WinCaches("collect_nvidia_smi_windows"),
                   b \in WinCaches("collect_wmi_gpu") :
                   /\ cache = WinRefresh(a, b).cache
                   /\ refresh_running = WinRefresh(a, b).refresh_running
                   /\ workers = WinRefresh(a, b).workers
          \/ /\ gpu_build = [target_os |-> "other", gpu_feature |-> feature]
             /\ gpu_probe \in {[NoProbe EXCEPT !.nvml = n] :
                                  n \in IF feature THEN NvmlGpus ELSE {<<>>}}
             /\ nvidia_smi_cache = None
             /\ cache = [name \in CacheNames |-> None]
             /\ refresh_running = [name \in CacheNames |-> FALSE]
             /\ workers = <<>>

\* a call of collect_gpu_info
CollectGpuInfo ==
    /\ ~gpu_called
    /\ LET out == collect_gpu_info(gpu_build, gpu_probe, GpuState, clock)
       IN  /\ gpu_snapshot' =
                  [gpus |-> out.gpus, tried |-> out.tried,
                   \* the entries query_nvidia_smi yields at this call (Linux)
                   cli |-> IF gpu_build.target_os = "linux"
                           THEN query_nvidia_smi(nvidia_smi_cache, clock, gpu_probe.cli).gpus
                           ELSE <<>>]
           /\ nvidia_smi_cache' = out.st.nvidia_smi_cache
           /\ cache' = out.st.refresh.cache
           /\ refresh_running' = out.st.refresh.refresh_running
           /\ workers' = out.st.refresh.workers
    /\ gpu_called' = TRUE
    /\ UNCHANGED <<gpu_build, gpu_probe, clock, callers>>
    /\ UNCHANGED <<ringVars, histVars, readVars, collectVars, classVars, tickVars, prefsVars>>

NoTick ==
    /\ refresh_interval_secs = 1
    /\ now = 0
    /\ pending_snapshots = <<>>
    /\ last_db_flush = 0
    /\ cpu_alert_threshold = 90
    /\ mem_alert_threshold = 90
    /\ event_log = <<>>
    /\ prev_cpu = 0
    /\ prev_mem_pct = 0
    /\ health_score = 10000
    /\ ticks = <<>>
    /\ emitted = <<>>

----------------------------------------------------------------------------
(* Specifications *)

NoRead ==
    /\ query = [name |-> "none", from |-> 0, to |-> 0, max_points |-> 0]
    /\ result = <<>>

RingNext == push /\ UNCHANGED <<histVars, readVars, collectVars, classVars, tickVars, gpuVars, refreshVars, prefsVars>>

HistoryNext ==
    \/ record_batch /\ UNCHANGED <<ringVars, readVars, collectVars, classVars, tickVars, gpuVars, refreshVars, prefsVars>>
    \/ record /\ UNCHANGED <<ringVars, readVars, collectVars, classVars, tickVars, gpuVars, refreshVars, prefsVars>>

ReadNext ==
    \/ LoadRange
    \/ LoadRangeDownsampled
    \/ ExportCsv
    \/ ExportJson

StoreNext ==
    \/ record_batch /\ UNCHANGED <<ringVars, readVars, collectVars, classVars, tickVars, gpuVars, refreshVars, prefsVars>>
    \/ record /\ UNCHANGED <<ringVars, readVars, collectVars, classVars, tickVars, gpuVars, refreshVars, prefsVars>>
    \/ LoadRange
    \/ LoadRangeDownsampled
    \/ ExportCsv
    \/ ExportJson

\* RingBuffer::new(capacity) beside an opened, untouched store
InitRing ==
    /\ RingInit
    /\ HistoryInit({DEFAULT_RETENTION_HOURS}, {{}}) /\ conn = TRUE
    /\ NoRead /\ NoCollect /\ NoClassify /\ NoPrefs /\ NoRefresh /\ NoGpu /\ NoTick

\* History::open on a fresh store file
InitHistory ==
    /\ RingInit /\ capacity = 0
    /\ HistoryInit({DEFAULT_RETENTION_HOURS}, {{}})
    /\ NoRead /\ NoCollect /\ NoClassify /\ NoPrefs /\ NoRefresh /\ NoGpu /\ NoTick

\* History::open on a store file holding rows of earlier runs
InitRead ==
    /\ RingInit /\ capacity = 0
    /\ HistoryInit({DEFAULT_RETENTION_HOURS}, Stores)
    /\ NoRead /\ NoCollect /\ NoClassify /\ NoPrefs /\ NoRefresh /\ NoGpu /\ NoTick

\* Digger::new with any sanitized retention preference
InitRetention ==
    /\ RingInit /\ capacity = 0
    /\ HistoryInit(RetentionHours, {{}})
    /\ NoRead /\ NoCollect /\ NoClassify /\ NoPrefs /\ NoRefresh /\ NoGpu /\ NoTick

\* History::open failed on a store file that holds rows of earlier runs
InitUnavailable ==
    /\ RingInit /\ capacity = 0
    /\ HistoryInit({DEFAULT_RETENTION_HOURS}, {{StoredRow(t) : t \in QueryTimes}})
    /\ conn = FALSE
    /\ NoRead /\ NoCollect /\ NoClassify /\ NoPrefs /\ NoRefresh /\ NoGpu /\ NoTick

InitCollect ==
    /\ RingInit /\ capacity = 0
    /\ HistoryInit({DEFAULT_RETENTION_HOURS}, {{}}) /\ conn = TRUE
    /\ NoRead /\ CollectInit(0..MaxLimit, ProcessTables, {<<>>}, MaxCollects - 1) /\ NoClassify /\ NoPrefs /\ NoRefresh /\ NoGpu /\ NoTick

InitClassify ==
    /\ RingInit /\ capacity = 0
    /\ HistoryInit({DEFAULT_RETENTION_HOURS}, {{}}) /\ conn = TRUE
    /\ NoRead /\ NoCollect /\ NoClassify /\ NoPrefs /\ NoRefresh /\ NoGpu /\ NoTick

\* a collector over the mounted disks, no process running
InitSchedule ==
    /\ RingInit /\ capacity = 0
    /\ HistoryInit({DEFAULT_RETENTION_HOURS}, {{}}) /\ conn = TRUE
    /\ NoRead /\ CollectInit({0}, {<<>>}, Mounted, 0) /\ NoClassify /\ NoPrefs /\ NoRefresh /\ NoGpu /\ NoTick

\* collects, and the OS changing between them
ScheduleNext ==
    /\ collect \/ OsChange
    /\ UNCHANGED <<ringVars, histVars, readVars, classVars, tickVars, gpuVars, refreshVars, prefsVars>>

CollectNext == collect /\ UNCHANGED <<ringVars, histVars, readVars, classVars, tickVars, gpuVars, refreshVars, prefsVars>>

ClassifyNext == classify /\ UNCHANGED <<ringVars, histVars, readVars, collectVars, tickVars, gpuVars, refreshVars, prefsVars>>

\* Digger::new at time 100 with an idle first snapshot
InitTick ==
    /\ \E interval \in {1, 5}, ct \in CpuThresholds, mt \in MemThresholds,
          live_max \in LiveBufferSizes :
          IsDigger(NewDigger(TRUE, TickSnapshot(100, 10, [used |-> 0, total |-> 0], <<>>),
                             live_max, interval, ct, mt))
    /\ NoRead /\ NoCollect /\ NoClassify /\ NoPrefs /\ NoRefresh /\ NoGpu

\* Digger::new with CPU alert threshold 50 and a first snapshot whose memory
\* triggers nothing
InitScenario ==
    /\ \E snap \in {x \in TickSnapshots(100) : Quiet(x)}, mt \in MemThresholds,
          live_max \in LiveBufferSizes :
          IsDigger(NewDigger(TRUE, snap, live_max, 1, 50, mt))
    /\ NoRead /\ NoCollect /\ NoClassify /\ NoPrefs /\ NoRefresh /\ NoGpu

\* a Digger whose store did not open, after EVENT_LOG_MAX - MaxTicks ticks
\* with a hot sensor, each of which logged one event
InitEventLog ==
    /\ \E ct \in CpuThresholds, mt \in MemThresholds, live_max \in LiveBufferSizes :
          IsDigger([after_hot_ticks(
                        NewDigger(FALSE, TickSnapshot(100, 10, [used |-> 0, total |-> 0], <<>>),
                                  live_max, 5, ct, mt),
                        EVENT_LOG_MAX - MaxTicks)
                    EXCEPT !.ticks = <<>>])
    /\ NoRead /\ NoCollect /\ NoClassify /\ NoPrefs /\ NoRefresh /\ NoGpu

\* Digger::new with the default alert thresholds and any of the readings
\* around the limits of the delta rules
InitDelta ==
    /\ \E snap \in DeltaSnapshots(100), live_max \in LiveBufferSizes :
          IsDigger(NewDigger(TRUE, snap, live_max, 1, 90, 90))
    /\ NoRead /\ NoCollect /\ NoClassify /\ NoPrefs /\ NoRefresh /\ NoGpu

\* Digger::new with the thresholds of the preferences file and a first
\* reading below all of them
InitLatch ==
    /\ \E ct \in CpuThresholds, mt \in MemSettings, live_max \in LiveBufferSizes :
          /\ IsDigger(NewDigger(TRUE, TickSnapshot(100, 10, [used |-> 70, total |-> 100], <<>>),
                                live_max, 1, ct, mt))
          /\ saved_prefs = Preferences(ct, mt)
    /\ NoRead /\ NoCollect /\ NoClassify /\ NoRefresh /\ NoGpu

\* ticks, and the settings sliders moved between them
LatchNext ==
    \/ LatchTick
    \/ \E v \in CpuThresholds : SetCpuAlertThreshold(v)
    \/ \E v \in MemSettings : SetMemAlertThreshold(v)

\* Digger::new on a store that opens or does not, with a refresh interval of
\* one or two seconds
InitFlush ==
    /\ \E available \in BOOLEAN, interval \in {1, 2}, live_max \in LiveBufferSizes :
          IsDigger(NewDigger(available, TickSnapshot(100, 10, [used |-> 70, total |-> 100], <<>>),
                             live_max, interval, 90, 90))
    /\ NoRead /\ NoCollect /\ NoClassify /\ NoPrefs /\ NoRefresh /\ NoGpu

\* Digger::new with the default alert thresholds and any of the readings
\* from idle to saturated
InitHealth ==
    /\ \E snap \in HealthSnapshots(100), live_max \in LiveBufferSizes :
          IsDigger(NewDigger(TRUE, snap, live_max, 1, 90, 90))
    /\ NoRead /\ NoCollect /\ NoClassify /\ NoPrefs /\ NoRefresh /\ NoGpu

\* the statics of gpu.rs before a call of collect_gpu_info
InitGpu ==
    /\ RingInit /\ capacity = 0
    /\ HistoryInit({DEFAULT_RETENTION_HOURS}, {{}}) /\ conn = TRUE
    /\ NoRead /\ NoCollect /\ NoClassify /\ NoPrefs /\ NoTick /\ GpuInit

\* the process before any call of an asynchronously refreshed backend
InitRefresh ==
    /\ RingInit /\ capacity = 0
    /\ HistoryInit({DEFAULT_RETENTION_HOURS}, {{}}) /\ conn = TRUE
    /\ NoRead /\ NoCollect /\ NoClassify /\ NoPrefs /\ NoTick /\ NoGpu /\ RefreshInit

\* calls of the entry points from the threads, refresh workers and time
RefreshNext ==
    /\ \/ \E t \in CallerThreads, name \in CacheNames :
             CallEntry(t, name)
       \/ \E t \in CallerThreads : CheckRunning(t)
       \/ \E t \in CallerThreads : SetRunning(t)
       \/ \E t \in CallerThreads : Spawn(t)
       \/ \E w \in 1..Len(workers) : WorkerStore(w)
       \/ \E w \in 1..Len(workers) : WorkerReset(w)
       \/ Advance
    /\ UNCHANGED <<ringVars, histVars, readVars, collectVars, classVars, tickVars, gpuVars, prefsVars>>

SpecRing == InitRing /\ [][RingNext]_vars

SpecHistory == InitHistory /\ [][HistoryNext]_vars

SpecRead == InitRead /\ [][ReadNext]_vars

SpecRetention == InitRetention /\ [][HistoryNext]_vars

SpecUnavailable == InitUnavailable /\ [][StoreNext]_vars

SpecCollect == InitCollect /\ [][CollectNext]_vars

SpecSchedule == InitSchedule /\ [][ScheduleNext]_vars

SpecClassify == InitClassify /\ [][ClassifyNext]_vars

SpecTick == InitTick /\ [][Tick]_vars

SpecScenario == InitScenario /\ [][ScenarioTick]_vars

SpecEventLog == InitEventLog /\ [][Tick]_vars

SpecDelta == InitDelta /\ [][DeltaTick]_vars

SpecLatch == InitLatch /\ [][LatchNext]_vars

SpecFlush == InitFlush /\ [][FlushTick]_vars

SpecHealth == InitHealth /\ [][HealthTick]_vars

SpecGpu == InitGpu /\ [][CollectGpuInfo]_vars

SpecRefresh == InitRefresh /\ [][RefreshNext]_vars

\* the same with every thread inside an entry point and every spawned worker
\* running on: the OS schedules each thread again and again
SpecRefreshFair ==
    /\ InitRefresh
    /\ [][RefreshNext]_vars
    /\ \A t \in CallerThreads :
          WF_vars(CallerStep(t) /\ UNCHANGED <<ringVars, histVars, readVars, collectVars,
                                              classVars, tickVars, gpuVars>>)
    /\ \A w \in 1..(2 * MaxCalls) :
          WF_vars(w <= Len(workers) /\ WorkerStep(w)
                  /\ UNCHANGED <<ringVars, histVars, readVars, collectVars, classVars,
                                 tickVars, gpuVars>>)

----------------------------------------------------------------------------
(* Claims about RingBuffer (checked under SpecRing) *)

\* C1: for a capacity C >= 1, after N pushes the buffer length is min(N, C)
\* and iter() yields the last min(N, C) pushed items, oldest first.
C1_LastPushesKept ==
    capacity >= 1 =>
        LET n == Len(pushed)
            k == Min(n, capacity)
        IN  /\ len(buf) = k
            /\ iter(buf) = SubSeq(pushed, n - k + 1, n)

\* a buffer that overflowed twice and dropped its two oldest items
C1_Witness ==
    /\ capacity = 2
    /\ Len(pushed) = 4
    /\ pushed[1] # pushed[3]
    /\ iter(buf) = <<pushed[3], pushed[4]>>

\* C2: a buffer created with capacity 0 stays empty after any number of pushes.
C2_ZeroCapacityStaysEmpty ==
    capacity = 0 => len(buf) = 0

----------------------------------------------------------------------------
(* Claims about History writes (checked under SpecHistory) *)

BatchTimes(snapshots) == {snapshots[i].timestamp : i \in 1..Len(snapshots)}

\* the row the batch leaves for timestamp t: that of the last snapshot carrying t
LastRowFor(snapshots, t) ==
    LET i == CHOOSE j \in 1..Len(snapshots) :
                 /\ snapshots[j].timestamp = t
                 /\ \A m \in (j + 1)..Len(snapshots) : snapshots[m].timestamp # t
    IN  Row(snapshots[i])

\* C3: when an insert of the batch fails, no row written by the batch is
\* present after the call (every row is a row that was there before, with its
\* previous content; nothing is lost unless the call also pruned) and
\* last_error holds WriteFailed.
C3_FailedBatchLeavesNoRow ==
    op.outcome = "rolled_back" =>
        /\ db \subseteq op.before.db
        /\ ~op.pruned => db = op.before.db
        /\ last_error = "WriteFailed"

\* the second insert failed after the first had replaced a stored row, and
\* the stored row is back with its previous content
C3_Witness ==
    /\ op.outcome = "rolled_back"
    /\ op.inserted = 1
    /\ \E r \in op.before.db :
         /\ r.timestamp = op.snapshots[1].timestamp
         /\ r.cpu # op.snapshots[1].cpu_usage_global
         /\ r \in db
    /\ op.before.last_error = "None"

\* C4 as stated: after a committed batch every snapshot of the batch is present
\* as a row and last_error is None.
C4_AllPresentAndErrorCleared ==
    op.outcome = "committed" =>
        /\ \A t \in BatchTimes(op.snapshots) : LastRowFor(op.snapshots, t) \in db
        /\ last_error = "None"

\* C4 amended: after a committed batch every snapshot of the batch is present
\* as a row, except those older than last.timestamp - retention when the call
\* prunes; last_error is None unless the prune's DELETE failed (WriteFailed).
C4_PresentUnlessPruned ==
    op.outcome = "committed" =>
        LET cutoff == Last(op.snapshots).timestamp - retention_secs
        IN  /\ \A t \in BatchTimes(op.snapshots) :
                 \/ LastRowFor(op.snapshots, t) \in db
                 \/ op.pruned /\ ~op.prune_failed /\ t < cutoff
            /\ last_error = IF op.prune_failed THEN "WriteFailed" ELSE "None"

\* a two-snapshot batch committed on a store whose last_error was WriteFailed
C4_Witness ==
    /\ op.outcome = "committed"
    /\ op.before.last_error = "WriteFailed"
    /\ Len(op.snapshots) = 2
    /\ op.snapshots[1].timestamp # op.snapshots[2].timestamp
    /\ \A i \in 1..2 : Row(op.snapshots[i]) \in db
    /\ op.pruned
    /\ last_error = "None"

\* C5: recording is an upsert keyed by timestamp: never two rows with one
\* timestamp, never more rows than distinct timestamps recorded, and after a
\* committed call a row whose timestamp occurs in the batch carries the values
\* of the last snapshot with that timestamp; the last snapshot's row is there.
C5_UpsertByTimestamp ==
    /\ \A r1, r2 \in db : r1.timestamp = r2.timestamp => r1 = r2
    /\ Cardinality(db) <= Cardinality(recorded)
    /\ op.outcome = "committed" =>
        /\ \A r \in db : r.timestamp \in BatchTimes(op.snapshots) =>
                r = LastRowFor(op.snapshots, r.timestamp)
        /\ Row(Last(op.snapshots)) \in db
        /\ Cardinality({r \in db : r.timestamp = Last(op.snapshots).timestamp}) = 1

\* the same timestamp recorded three times with alternating values, in two
\* calls, the second a batch that carries it twice
C5_Witness ==
    /\ op.outcome = "committed"
    /\ Len(op.snapshots) = 2
    /\ op.snapshots[1].timestamp = op.snapshots[2].timestamp
    /\ op.snapshots[1].cpu_usage_global # op.snapshots[2].cpu_usage_global
    /\ \E r \in op.before.db :
         /\ r.timestamp = op.snapshots[2].timestamp
         /\ r.cpu # op.snapshots[2].cpu_usage_global
    /\ Cardinality(db) = 1

\* C6: while every call succeeded and timestamps never decreased, every
\* stored row has timestamp >= L - R - 60, L the latest recorded timestamp.
C6_RetentionBound ==
    (conn /\ clean /\ handed > 0) =>
        \A r \in db : r.timestamp >= latest - retention_secs - PRUNE_INTERVAL_SECS

\* a row older than the retention window that survives because the last
\* prune was less than 60 seconds before
C6_Witness ==
    /\ conn /\ clean
    /\ ~op.pruned
    /\ op.before.last_prune_time > 0
    /\ \E r \in db : r.timestamp < latest - retention_secs

\* C7: record_batch prunes (deletes rows, advances last_prune_time) exactly
\* when the batch was committed and the last snapshot is at least 60 s after
\* last_prune_time; a rolled-back batch deletes no row and leaves
\* last_prune_time unchanged; consecutive prunes are at least 60 s apart.
C7_PruneOnlyAfterCommit ==
    /\ op.pruned <=>
         /\ op.outcome = "committed"
         /\ Last(op.snapshots).timestamp - op.before.last_prune_time >= 60
    /\ op.outcome = "rolled_back" =>
         /\ db = op.before.db
         /\ last_prune_time = op.before.last_prune_time
    /\ (op.pruned /\ op.before.last_prune_time > 0) =>
         last_prune_time - op.before.last_prune_time >= 60

\* C8: every prune deletes exactly the rows with timestamp below
\* latest_timestamp - retention_hours * 3600.
C8_PruneUsesConfiguredRetention ==
    (op.pruned /\ ~op.prune_failed) =>
        LET table1 == IF op.outcome = "committed"
                      THEN insert_loop(op.before.db, op.snapshots, 1, 0).table
                      ELSE op.before.db
            cutoff == Last(op.snapshots).timestamp - retention_hours * 3600
        IN  db = {r \in table1 : r.timestamp >= cutoff}

----------------------------------------------------------------------------
(* Claims about History reads (checked under SpecRead) *)

\* C9: for from < to and max_points >= 1, load_range_downsampled returns at
\* most max_points rows, also when stored rows have timestamp equal to `to`.
C9_AtMostMaxPoints ==
    (/\ query.name = "load_range_downsampled"
     /\ query.max_points >= 1
     /\ query.from < query.to) =>
        Len(result) <= query.max_points

\* C10: load_range_downsampled returns nothing for max_points = 0 and when
\* no stored row lies in [from, to]; for max_points >= 1 and from >= to it
\* returns what load_range(from, to) returns.
C10_DegenerateCases ==
    query.name = "load_range_downsampled" =>
        /\ query.max_points = 0 => result = <<>>
        /\ (\A r \in db : r.timestamp < query.from \/ r.timestamp > query.to) =>
               result = <<>>
        /\ (query.max_points >= 1 /\ query.from >= query.to) =>
               result = ascending({r \in db : conn /\ query.from <= r.timestamp
                                                  /\ r.timestamp <= query.to})

\* a zero-width range on a stored timestamp: the row comes back as stored
C10_Witness ==
    /\ query.name = "load_range_downsampled"
    /\ query.max_points >= 1
    /\ query.from = query.to
    /\ Len(result) = 1
    /\ result[1] \in db

\* str::lines: the pieces between line ends, a final empty piece dropped
RECURSIVE split_lines(_, _)
split_lines(text, cur) ==
    IF text = <<>> THEN (IF cur = <<>> THEN <<>> ELSE <<cur>>)
    ELSE IF Head(text).kind = "nl" THEN <<cur>> \o split_lines(Tail(text), <<>>)
    ELSE split_lines(Tail(text), Append(cur, Head(text)))

lines(text) == split_lines(text, <<>>)

\* the text without its white space
RECURSIVE no_space(_)
no_space(text) ==
    IF text = <<>> THEN <<>>
    ELSE (IF Head(text).kind = "nl" THEN <<>> ELSE <<Head(text)>>) \o no_space(Tail(text))

\* the text is a JSON array: "[", objects separated by ",", "]"
IsJsonArray(text) ==
    LET t == no_space(text)
        n == Len(t)
    IN  /\ n >= 2
        /\ t[1].kind = "[" /\ t[n].kind = "]"
        /\ n = 2 \/ n % 2 = 1
        /\ \A i \in 2..(n - 1) : t[i].kind = IF i % 2 = 0 THEN "object" ELSE ","

\* the objects of a JSON array, in order
json_objects(text) == SelectSeq(no_space(text), LAMBDA t : t.kind = "object")

\* the rows load_range(from, to) returns for the last query
RangeRows == load_range(HistoryState, query.from, query.to)

CsvMatches(text, rows) ==
    LET ls == lines(text)
    IN  /\ Len(ls) = Len(rows) + 1
        /\ Len(ls[1]) = 1 /\ ls[1][1].kind = "header"
        /\ \A i \in 1..Len(rows) :
             /\ Len(ls[i + 1]) = 1
             /\ ls[i + 1][1].kind = "fields"
             /\ ls[i + 1][1].timestamp = rows[i].timestamp

JsonMatches(text, rows) ==
    /\ IsJsonArray(text)
    /\ Len(json_objects(text)) = Len(rows)
    /\ \A i \in 1..Len(rows) : json_objects(text)[i].timestamp.whole = rows[i].timestamp

----------------------------------------------------------------------------
(* Claims about the unavailable store (checked under SpecUnavailable) *)

\* C13: once History::open failed, after any sequence of writes, reads and
\* exports is_available() is false, last_error is the InitFailed error, no
\* write changed the state and every read returned an empty result.
C13_UnavailableInert ==
    /\ ~conn
    /\ last_error = "InitFailed"
    /\ db = op.before.db /\ last_prune_time = 0
    /\ retention_secs = DEFAULT_RETENTION_SECS
    /\ op.name # "open" => op.outcome = "unavailable"
    /\ query.name \in {"load_range", "load_range_downsampled", "export_csv"} =>
           Len(result) = 0
    /\ query.name = "export_json" =>
           /\ IsJsonArray(result)
           /\ Len(json_objects(result)) = 0

\* a write and a read were both attempted on an unavailable store whose file
\* holds rows inside the queried range
C13_Witness ==
    /\ ~conn
    /\ op.outcome = "unavailable" /\ handed >= 2
    /\ query.name = "load_range"
    /\ \E r \in db : query.from <= r.timestamp /\ r.timestamp <= query.to

----------------------------------------------------------------------------
(* Claims about the collector (checked under SpecCollect and SpecClassify) *)

Included == {processes[i].pid : i \in 1..Len(processes)}

Excluded == {sys_processes[i] : i \in 1..Len(sys_processes)} \ 
            {processes[i] : i \in 1..Len(processes)}

\* C14: the process list collect() returns has length min(N, number of
\* processes), is sorted by non-increasing CPU usage, consists of processes of
\* the table, each at most once, and no process left out has a CPU usage
\* strictly greater than one that is in.
C14_TopN ==
    collected =>
    /\ Len(processes) = Min(process_limit, Len(sys_processes))
    /\ \A i, j \in 1..Len(processes) : i < j =>
           processes[i].cpu_usage >= processes[j].cpu_usage
    /\ \A i \in 1..Len(processes) : \E k \in 1..Len(sys_processes) :
           processes[i] = sys_processes[k]
    /\ Cardinality(Included) = Len(processes)
    /\ \A e \in Excluded : \A i \in 1..Len(processes) :
           e.cpu_usage <= processes[i].cpu_usage

\* more processes than the limit, a tie across the cut and a busier process
\* that came last in the table
C14_Witness ==
    /\ collected
    /\ process_limit >= 2
    /\ Len(sys_processes) > process_limit
    /\ Len(processes) = process_limit
    /\ \E e \in Excluded : e.cpu_usage = processes[Len(processes)].cpu_usage
    /\ \E e \in Excluded : e.cpu_usage < processes[Len(processes)].cpu_usage
    /\ processes[1] = sys_processes[Len(sys_processes)]
    /\ processes[1].cpu_usage > processes[2].cpu_usage

\* the token of the inspected process could be read
Readable(p) == p.failing = "none"

C16_SystemNeedsNameAndPath ==
    (inspected.owner = "other") =>
        /\ uid = 1 => (/\ is_known_windows_system_process(inspected.name)
                       /\ is_windows_system_path(inspected.exe_path))
        /\ ~is_windows_system_path(inspected.exe_path) => uid = 0

----------------------------------------------------------------------------
(* Claims about the anomaly engine of Message::Tick *)

\* the live point pushed by the collect before tick i (the constructor's for
\* the first tick ever)
ReadingBefore(i) == pushed[Len(pushed) - Len(ticks) + i - 1]

\* the events of tick i that carry the given message
EventsOf(i, message) == SelectSeq(ticks[i].events, LAMBDA e : e.message = message)

\* tick i logged exactly one event with this message, severity and
\* notification when due, and none with this message otherwise
LoggedIff(i, message, severity, notification, due) ==
    /\ Len(EventsOf(i, message)) = IF due THEN 1 ELSE 0
    /\ \A k \in 1..Len(EventsOf(i, message)) :
          /\ EventsOf(i, message)[k].severity = severity
          /\ EventsOf(i, message)[k].notification = notification

\* C17 as stated: with CPU alert threshold 50 and ticks reading CPU 10, 60,
\* 20 (memory and temperature quiet) the log gets nothing at tick 1, exactly
\* a Critical event at tick 2 and exactly an Info recovered event at tick 3.
C17_ScenarioEvents ==
    /\ Len(ticks) >= 1 => ticks[1].events = <<>>
    /\ Len(ticks) >= 2 =>
          /\ Len(ticks[2].events) = 1
          /\ ticks[2].events[1].severity = "Critical"
    /\ Len(ticks) >= 3 =>
          /\ Len(ticks[3].events) = 1
          /\ ticks[3].events[1].severity = "Info"
          /\ ticks[3].events[1].message = "CPU recovered"

\* C17 amended: in that scenario, when the snapshot taken at construction
\* read a CPU below 50, tick 1 logs nothing, tick 2 logs a CPU spike Warning
\* (60 - 10 > 40) and then the Critical threshold event, tick 3 logs the Info
\* recovered event; when it read 50 or more, tick 1 logs an Info recovered
\* event.
C17_ScenarioWithSpike ==
    /\ Len(ticks) >= 1 =>
          IF pushed[1].cpu < 50
          THEN ticks[1].events = <<>>
          ELSE /\ Len(ticks[1].events) = 1
               /\ ticks[1].events[1].severity = "Info"
               /\ ticks[1].events[1].message = "CPU recovered"
    /\ Len(ticks) >= 2 =>
          /\ Len(ticks[2].events) = 2
          /\ ticks[2].events[1].severity = "Warning"
          /\ ticks[2].events[1].message = "CPU spike"
          /\ ticks[2].events[2].severity = "Critical"
          /\ ticks[2].events[2].message = "CPU exceeded threshold"
    /\ Len(ticks) >= 3 =>
          /\ Len(ticks[3].events) = 1
          /\ ticks[3].events[1].severity = "Info"
          /\ ticks[3].events[1].message = "CPU recovered"

\* the three ticks of the scenario are done, the first reading being low
C17_Witness ==
    /\ Len(ticks) = 3
    /\ cpu_alert_threshold = 50
    /\ pushed[1].cpu < 50
    /\ ticks[1].snap.cpu_usage_global = 10
    /\ ticks[2].snap.cpu_usage_global = 60
    /\ ticks[3].snap.cpu_usage_global = 20
    /\ Len(emitted) = 3

\* C18: threshold alerts are edge-triggered per metric: a tick logs a
\* Critical event with a notification for CPU (memory) exactly when its value
\* is >= the threshold and the value of the tick before was below it, an Info
\* recovered event exactly when its value is below and the one before was >=,
\* and no threshold event of that metric otherwise, whatever the other metric
\* does.
C18_EdgeTriggered ==
    \A i \in 1..Len(ticks) :
        LET cpu == ticks[i].snap.cpu_usage_global
            mem == mem_pct_of(ticks[i].snap)
            before == ReadingBefore(i)
            ct == ticks[i].cpu_alert_threshold
            mt == ticks[i].mem_alert_threshold
        IN  /\ LoggedIff(i, "CPU exceeded threshold", "Critical", "Digger: CPU Alert",
                         cpu >= ct /\ before.cpu < ct)
            /\ LoggedIff(i, "CPU recovered", "Info", "", cpu < ct /\ before.cpu >= ct)
            /\ LoggedIff(i, "Memory exceeded threshold", "Critical", "Digger: Memory Alert",
                         mem >= mt /\ before.mem_pct < mt)
            /\ LoggedIff(i, "Memory recovered", "Info", "", mem < mt /\ before.mem_pct >= mt)

\* the CPU crosses its threshold at tick 1 and stays above at tick 2, where
\* the memory crosses its own
C18_Witness ==
    /\ Len(ticks) = 2
    /\ Len(EventsOf(1, "CPU exceeded threshold")) = 1
    /\ Len(EventsOf(1, "Memory exceeded threshold")) = 0
    /\ ticks[2].snap.cpu_usage_global >= cpu_alert_threshold
    /\ Len(EventsOf(2, "CPU exceeded threshold")) = 0
    /\ Len(EventsOf(2, "Memory exceeded threshold")) = 1

\* C19: the temperature alert is level-triggered: every tick with a sensor
\* above 85 logs a Critical event with a notification, also on consecutive
\* ticks, and a tick whose sensors are all <= 85, or that has none, logs no
\* temperature event.
C19_TemperatureLevel ==
    \A i \in 1..Len(ticks) :
        LET temps == ticks[i].snap.temperatures
        IN  LoggedIff(i, "High temperature", "Critical", "Digger: Temperature Alert",
                      \E k \in 1..Len(temps) : temps[k] > 85)

\* two consecutive hot ticks, each with its event
C19_Witness ==
    /\ Len(ticks) = 2
    /\ Len(EventsOf(1, "High temperature")) = 1
    /\ Len(EventsOf(2, "High temperature")) = 1

\* C20: the event log never holds more than 100 events; it holds the most
\* recent min(total emitted, 100) events in emission order, the oldest dropped
\* first; a tick emits between 0 and 7 events.
C20_EventLogBounded ==
    LET n == Len(emitted)
        k == Min(n, 100)
    IN  /\ Len(event_log) <= 100
        /\ event_log = SubSeq(emitted, n - k + 1, n)
        /\ \A i \in 1..Len(ticks) : Len(ticks[i].events) \in 0..7

\* a tick with five events pushed the log over its capacity
C20_Witness ==
    /\ Len(ticks) >= 1
    /\ Len(ticks[Len(ticks)].events) = 5
    /\ Len(emitted) > 100
    /\ Len(event_log) = 100
    /\ event_log[1] # emitted[1]

\* C21: a tick logs a CPU spike Warning, with a notification, exactly when
\* its CPU% minus the CPU% of the reading before is greater than 40, and a
\* memory-rising Warning, without notification, exactly when its memory%
\* exceeds the memory% of the reading before by more than 2 and is above 80;
\* the values compared are those of the immediately preceding reading.
C21_DeltaWarnings ==
    \A i \in 1..Len(ticks) :
        LET cpu == ticks[i].snap.cpu_usage_global
            mem == mem_pct_of(ticks[i].snap)
            before == ReadingBefore(i)
        IN  /\ LoggedIff(i, "CPU spike", "Warning", "Digger: CPU Spike",
                         cpu - before.cpu > 40)
            /\ LoggedIff(i, "Memory rising", "Warning", "",
                         mem > before.mem_pct + 2 /\ mem > 80)
            /\ ticks[i].prev_cpu = before.cpu
            /\ ticks[i].prev_mem_pct = before.mem_pct

\* a spike tick (10 to 60) with memory rising by exactly 2 (no event), after
\* a tick whose memory rose by 3 to exactly 80 (no event either)
C21_Witness ==
    /\ Len(ticks) = 2
    /\ ReadingBefore(1).mem_pct = 77
    /\ mem_pct_of(ticks[1].snap) = 80
    /\ ticks[1].snap.cpu_usage_global = 10
    /\ ticks[1].events = <<>>
    /\ ticks[2].snap.cpu_usage_global = 60
    /\ Len(EventsOf(2, "CPU spike")) = 1
    /\ Len(EventsOf(2, "Memory rising")) = 0
    /\ mem_pct_of(ticks[2].snap) > 80

----------------------------------------------------------------------------
(* Claims about the GPU detection cascade *)

\* the backends a build has, in the priority order vendor library, device
\* tree, vendor CLI, management instrumentation
Backends(build) ==
    (IF build.gpu_feature THEN <<"nvml">> ELSE <<>>)
    \o (IF build.target_os = "linux" THEN <<"sysfs", "nvidia-smi">>
        ELSE IF build.target_os = "windows" THEN <<"nvidia-smi", "wmi">>
        ELSE <<>>)

\* C23: collect_gpu_info returns the result of the first backend, in the
\* fixed priority order, whose result is non-empty: the backends are asked
\* in that order, a lower-priority backend is asked and its devices returned
\* only when every higher-priority backend returned none, and the result is
\* empty only when all backends of the build returned none.
C23_FirstNonEmptyWins ==
    gpu_called =>
        LET tried == gpu_snapshot.tried
            order == Backends(gpu_build)
            n == Len(tried)
        IN  /\ n <= Len(order)
            /\ \A i \in 1..n : tried[i].backend = order[i]
            /\ \A i \in 1..(n - 1) : tried[i].gpus = <<>>
            /\ gpu_snapshot.gpus = IF n = 0 THEN <<>> ELSE tried[n].gpus
            /\ gpu_snapshot.gpus = <<>> => n = Len(order)
            /\ \A i \in 1..n :
                  /\ tried[i].backend = "nvml" => tried[i].gpus = gpu_probe.nvml
                  /\ tried[i].backend = "sysfs" =>
                        Len(tried[i].gpus) = Len(collect_sysfs(gpu_probe.sysfs))

\* on Linux with NVML built in: NVML reported nothing, sysfs had only a card
\* without name and data, and the devices of the standalone CLI were returned
C23_Witness ==
    /\ gpu_called
    /\ gpu_build = [target_os |-> "linux", gpu_feature |-> TRUE]
    /\ Len(gpu_probe.sysfs) = 1
    /\ Len(gpu_snapshot.tried) = 3
    /\ gpu_snapshot.tried[3].backend = "nvidia-smi"
    /\ Len(gpu_snapshot.gpus) = 2

\* the sysfs devices before enrichment, the devices returned, the CLI entries
SysfsBefore == collect_sysfs(gpu_probe.sysfs)

\* collect_gpu_info returned the sysfs devices after enrichment
Enriched ==
    /\ gpu_called
    /\ gpu_build.target_os = "linux"
    /\ SysfsBefore # <<>>
    /\ gpu_snapshot.tried[Len(gpu_snapshot.tried)].backend = "sysfs"

\* device i is the k-th NVIDIA device of the sysfs list
NvidiaRank(i) ==
    Cardinality({j \in 1..i : contains_NVIDIA(SysfsBefore[j].name)})

\* the fields of device b that a holds a CLI value for because b had none
Backfilled(b, a, smi) ==
    /\ b.temperature = 0 => a.temperature = smi.temperature
    /\ b.utilization = 0 => a.utilization = smi.utilization
    /\ b.memory_total = 0 =>
          /\ a.memory_total = smi.memory_total
          /\ a.memory_used = IF smi.memory_total # 0 THEN smi.memory_used
                             ELSE b.memory_used
    /\ b.power_watts = 0 => a.power_watts = smi.power_watts

\* C24 as stated: enrichment leaves the number and order of devices
\* unchanged and never changes a field (name, temperature, utilization,
\* memory, power) that sysfs had populated with a non-zero / non-empty value;
\* a zero field of the k-th NVIDIA device is filled from the k-th CLI entry.
C24_OnlyBackfills ==
    Enriched =>
        /\ Len(gpu_snapshot.gpus) = Len(SysfsBefore)
        /\ \A i \in 1..Len(SysfsBefore) :
              LET b == SysfsBefore[i]
                  a == gpu_snapshot.gpus[i]
                  k == NvidiaRank(i)
              IN  /\ b.name # <<>> => a.name = b.name
                  /\ b.temperature # 0 => a.temperature = b.temperature
                  /\ b.utilization # 0 => a.utilization = b.utilization
                  /\ b.memory_total # 0 =>
                        a.memory_total = b.memory_total /\ a.memory_used = b.memory_used
                  /\ b.power_watts # 0 => a.power_watts = b.power_watts
                  /\ (contains_NVIDIA(b.name) /\ k <= Len(gpu_snapshot.cli))
                     => Backfilled(b, a, gpu_snapshot.cli[k])

\* C24 amended: enrichment leaves the number and order of devices unchanged
\* and never changes a temperature, utilization, memory or power that sysfs
\* had populated with a non-zero value.  When at least one NVIDIA device
\* lacks temperature, total memory or power, the k-th NVIDIA device gets its
\* zero fields from the k-th CLI entry and also that entry's name, if it is
\* not empty; every other device, and every device when no NVIDIA device
\* lacks one of these three fields, is returned as sysfs read it.
C24_BackfillsAndRenames ==
    Enriched =>
        /\ Len(gpu_snapshot.gpus) = Len(SysfsBefore)
        /\ \A i \in 1..Len(SysfsBefore) :
              LET b == SysfsBefore[i]
                  a == gpu_snapshot.gpus[i]
                  k == NvidiaRank(i)
              IN  /\ b.temperature # 0 => a.temperature = b.temperature
                  /\ b.utilization # 0 => a.utilization = b.utilization
                  /\ b.memory_total # 0 =>
                        a.memory_total = b.memory_total /\ a.memory_used = b.memory_used
                  /\ b.power_watts # 0 => a.power_watts = b.power_watts
                  /\ IF /\ contains_NVIDIA(b.name)
                        /\ k <= Len(gpu_snapshot.cli)
                        /\ \E j \in 1..Len(SysfsBefore) :
                              /\ contains_NVIDIA(SysfsBefore[j].name)
                              /\ \/ SysfsBefore[j].temperature = 0
                                 \/ SysfsBefore[j].memory_total = 0
                                 \/ SysfsBefore[j].power_watts = 0
                     THEN /\ Backfilled(b, a, gpu_snapshot.cli[k])
                          /\ a.name = IF gpu_snapshot.cli[k].name # <<>>
                                      THEN gpu_snapshot.cli[k].name ELSE b.name
                     ELSE a = b

\* sysfs found one NVIDIA device without power data, the CLI one device
\* with 30.5 W: one merged device with the temperature and utilization of
\* sysfs and the power of the CLI
C24_Witness ==
    /\ Enriched
    /\ Len(SysfsBefore) = 1
    /\ SysfsBefore[1].temperature = 40
    /\ SysfsBefore[1].power_watts = 0
    /\ Len(gpu_snapshot.cli) = 1
    /\ Len(gpu_snapshot.gpus) = 1
    /\ gpu_snapshot.gpus[1].temperature = 40
    /\ gpu_snapshot.gpus[1].utilization = 20
    /\ gpu_snapshot.gpus[1].power_watts = 305

----------------------------------------------------------------------------
(* Claims about the asynchronously refreshed caches *)

\* C25: single-flight refresh: for each asynchronously refreshed cache, in
\* every interleaving of calls of its entry point from one or several
\* threads and of worker steps, at most one refresh worker is in flight, and
\* a thread goes on to spawn a worker only while the refresh-in-progress flag
\* is false.
C25_SingleFlight ==
    /\ \A name \in CacheNames : Cardinality(InFlight(name)) <= 1
    /\ \A t \in CallerThreads :
          callers[t].pc = "set_running" => ~refresh_running[callers[t].name]

\* C26: a call of an asynchronously refreshed backend never waits for a
\* worker: whatever the workers do, the thread inside the entry point can
\* take its next step; and the call returns the value the cache held when
\* the call read it, fresh or past its TTL, and empty when nothing was ever
\* cached, whether or not a worker is in flight.
C26_NonBlockingCachedRead ==
    \A t \in CallerThreads :
        /\ callers[t].pc # "idle" => ENABLED CallerStep(t)
        /\ (callers[t].pc = "idle" /\ callers[t].last.name # "") =>
              callers[t].last.ret = IF callers[t].last.seen.some
                                    THEN callers[t].last.seen.data ELSE <<>>

\* a call returned the devices of a cache past its TTL while a worker was
\* in flight, and another returned empty because nothing was cached yet
C26_Witness ==
    /\ \E t \in CallerThreads :
          /\ callers[t].pc = "idle"
          /\ ~callers[t].last.fast
          /\ callers[t].last.seen.some
          /\ callers[t].last.in_flight
          /\ callers[t].last.ret # <<>>
    /\ \E t \in CallerThreads :
          /\ callers[t].pc = "idle"
          /\ callers[t].last.name # ""
          /\ ~callers[t].last.seen.some
          /\ callers[t].last.ret = <<>>

\* C30: whenever a refresh-in-progress flag is true a worker has been
\* spawned for it (or the thread that set it is about to spawn one); a worker
\* that has yet to reset the flag has stored its result with the timestamp
\* of the store; and a caller that finds the flag false after a refresh
\* started finds that refresh's result stored in the cache.
C30_WorkerProtocol ==
    /\ \A name \in CacheNames :
          refresh_running[name] =>
              \/ InFlight(name) # {}
              \/ \E t \in CallerThreads :
                    callers[t].pc = "spawn" /\ callers[t].name = name
    /\ \A w \in 1..Len(workers) :
          workers[w].pc = "reset" =>
              /\ cache[workers[w].cache].some
              /\ cache[workers[w].cache].ts >= workers[w].stored_at
              /\ workers[w].stored_at <= clock
    /\ \A t \in CallerThreads :
          ~(callers[t].last.pending /\ ~callers[t].last.already_running)

\* the liveness part of C30: under fair scheduling every flag set to true is
\* eventually reset to false
C30_FlagEventuallyReset ==
    \A name \in CacheNames : refresh_running[name] ~> ~refresh_running[name]

\* C27: every collect() advances the tick counter by exactly one; counting
\* the collects from 1, the full CPU metadata is refreshed on the ticks
\* divisible by 10 and on no other, the cached disk list is rebuilt from the
\* listed disks on the ticks divisible by 30 and on no other, and on every
\* other tick the cached disks keep their count, names, mount points,
\* filesystem types, totals and removable flags: only `available` may change.
C27_StaggeredRefresh ==
    [][tick_count' # tick_count =>
          /\ tick_count' = tick_count + 1
          /\ (refreshed'.cpu = "everything") <=> (tick_count' % 10 = 0)
          /\ IF tick_count' % 10 = 0
             THEN cpu_frequency' = os_frequency
             ELSE cpu_frequency' = cpu_frequency
          /\ refreshed'.rebuilt <=> (tick_count' % 30 = 0)
          /\ IF tick_count' % 30 = 0
             THEN cached_disks' = disks'
             ELSE /\ Len(cached_disks') = Len(cached_disks)
                  /\ \A i \in 1..Len(cached_disks) :
                         [cached_disks'[i] EXCEPT
                              !.available = cached_disks[i].available]
                             = cached_disks[i]]_vars

\* the 60th collect rebuilt the list of two disks and picked up the resized
\* first disk, and refreshed the CPU metadata to a changed frequency
C27_Witness ==
    /\ tick_count = 60
    /\ refreshed.rebuilt
    /\ refreshed.cpu = "everything"
    /\ Len(cached_disks) = 2
    /\ cached_disks[1].total = 200
    /\ cpu_frequency = 3600

\* the last of the first n ticks that flushed, 0 when none did
RECURSIVE LastFlush(_)
LastFlush(n) ==
    IF n = 0 THEN 0
    ELSE IF ticks[n].flushed THEN n ELSE LastFlush(n - 1)

\* the snapshots collected on the ticks after tick i, up to tick n
CollectedSince(i, n) == [k \in 1..(n - i) |-> ticks[i + k].snap]

\* C28: the first Tick flushes, and so does every later Tick whose snapshot
\* is stamped 5 seconds or more after the last flush; a flush hands
\* record_batch the snapshots collected since the flush before, in the order
\* of their collection, and leaves the pending list empty; between flushes
\* the pending list holds exactly the snapshots collected since the last
\* flush; so every snapshot up to the last flush has been handed in once, and
\* none after it.
C28_PendingBatchFlush ==
    LET n == Len(ticks)
    IN  /\ pending_snapshots = CollectedSince(LastFlush(n), n)
        /\ handed = 1 + LastFlush(n)
        /\ n > 0 =>
             /\ ticks[1].flushed
             /\ last_db_flush = ticks[LastFlush(n)].snap.timestamp
             /\ (n > 1 /\ ticks[n].snap.timestamp
                              - ticks[LastFlush(n - 1)].snap.timestamp
                          >= DB_FLUSH_INTERVAL_SECS) => ticks[n].flushed
             /\ ticks[n].flushed =>
                  /\ pending_snapshots = <<>>
                  /\ op.name = "record_batch"
                  /\ conn => op.snapshots = CollectedSince(LastFlush(n - 1), n)

\* a Tick stamped exactly 5 seconds after the last flush hands in the five
\* snapshots collected since
C28_Witness ==
    LET n == Len(ticks)
    IN  /\ n >= 6
        /\ ticks[n].flushed
        /\ ticks[n].snap.timestamp - ticks[n - 5].snap.timestamp
               = DB_FLUSH_INTERVAL_SECS
        /\ Len(op.snapshots) = 5
        /\ op.snapshots = CollectedSince(n - 5, n)

\* the threshold events of a metric, in the order they were emitted
ThresholdEvents(metric) ==
    SelectSeq(emitted, LAMBDA e : e.message \in {metric \o " exceeded threshold",
                                                 metric \o " recovered"})

\* never two events of the same kind in a row
Alternate(events) ==
    \A i \in 1..(Len(events) - 1) : events[i].message # events[i + 1].message

\* C29: over Tick and SetCpuAlertThreshold / SetMemAlertThreshold messages
\* the threshold events of each metric alternate: never two Critical
\* "exceeded threshold" events without a "recovered" event of the metric
\* between them, never two "recovered" events without a Critical between them.
C29_LatchAlternation ==
    /\ Alternate(ThresholdEvents("CPU"))
    /\ Alternate(ThresholdEvents("Memory"))


====
